---- MODULE Spec2Model ----
(***************************************************************************)
(* A model of passes/memory/memory_libmap.cc: the library parser, the      *)
(* option propagation primitives and the candidate search of MemMapping.   *)
(*                                                                         *)
(* Conventions.                                                            *)
(*  - C++ enumerators are strings carrying the enumerator's name.          *)
(*  - Vectors are sequences; an index i of the source is i+1 here, and the *)
(*    source's -1 ("none") is 0.                                           *)
(*  - A dict<std::string, T> is the sequence of its entries in insertion   *)
(*    order (hashlib keeps entries in a vector and iterates it from the    *)
(*    back); a lookup is by key.                                           *)
(*  - A Const is a machine integer (option values) or a sequence of bits   *)
(*    "0", "1", "x" (reset and init values).                               *)
(*  - Fields of the source that are never assigned nor read (width, wrbe,  *)
(*    unit_abits, ...) are left out of the records.                        *)
(***************************************************************************)
EXTENDS Integers, Sequences, FiniteSets, TLC

VARIABLES
    lib,        \* Library::ram_defs
    mem,        \* the Mem being mapped
    cfgs,       \* MemMapping::cfgs
    kind,       \* MemMapping::kind
    style,      \* MemMapping::style
    logic_ok,   \* MemMapping::logic_ok
    pc,         \* position in the MemMapping constructor
    prio_trace, \* history: the port-group lookups done by handle_priority
    steps,      \* history: the loop-body runs of the last per-port handler
    call,       \* the calls of a function checked on its own, and their results
    parser      \* the Parser object (and the Library it fills)

vars == <<lib, mem, cfgs, kind, style, logic_ok, pc, prio_trace, steps, call, parser>>

----------------------------------------------------------------------------
(* Generic helpers.                                                        *)

RECURSIVE Flatten(_)
\* Concatenation of a sequence of sequences: the order in which nested
\* loops push_back into new_cfgs.
Flatten(ss) ==
    IF ss = <<>> THEN <<>> ELSE Head(ss) \o Flatten(Tail(ss))

Range(s) == {s[i] : i \in 1..Len(s)}

\* The sequences over S of length at most n.
SeqsUpTo(S, n) == UNION {[1..k -> S] : k \in 0..n}

----------------------------------------------------------------------------
(* Options: dict<std::string, Const>.                                      *)

NoOpts == <<>>

\* dict::find: the position of the entry with this key, 0 for end().
Find(d, k) ==
    IF \E i \in 1..Len(d) : d[i].key = k
    THEN CHOOSE i \in 1..Len(d) : d[i].key = k
    ELSE 0

\* dict::operator[]= : assign in place, or append a new entry.
DictSet(d, k, v) ==
    IF Find(d, k) = 0 THEN Append(d, [key |-> k, val |-> v])
    ELSE [d EXCEPT ![Find(d, k)].val = v]

opts_applied(dst, src) ==
    \A i \in 1..Len(src) :
        /\ Find(dst, src[i].key) # 0
        /\ dst[Find(dst, src[i].key)].val = src[i].val

RECURSIVE apply_opts_from(_, _, _)
\* The loop of apply_opts, at entry i of src (iteration runs from the back).
apply_opts_from(dst, src, i) ==
    IF i = 0 THEN [ok |-> TRUE, dst |-> dst]
    ELSE LET it == src[i]
             it2 == Find(dst, it.key)
         IN  IF it2 = 0
             THEN apply_opts_from(Append(dst, it), src, i - 1)
             ELSE IF dst[it2].val # it.val
                  THEN [ok |-> FALSE, dst |-> dst]
                  ELSE apply_opts_from(dst, src, i - 1)

\* A plausible slip: a conflicting binding overwrites the old one.
apply_opts_overwrite(dst, src) ==
    LET RECURSIVE go(_, _)
        go(d, i) == IF i = 0 THEN d ELSE go(DictSet(d, src[i].key, src[i].val), i - 1)
    IN  [ok |-> TRUE, dst |-> go(dst, Len(src))]

\* bool apply_opts(Options &dst, const Options &src): the result and dst after.
apply_opts(dst, src) == apply_opts_from(dst, src, Len(src))

----------------------------------------------------------------------------
(* The library model: Capability<T>, PortGroupDef, RamDef.                 *)

\* Capability<T>(val, opts, portopts)
Cap(v, o, po) == [val |-> v, opts |-> o, portopts |-> po]

\* An Options holding one binding.
Opt(k, v) == <<[key |-> k, val |-> v]>>

ClockDef(k, n) == [kind |-> k, name |-> n]
ResetValDef(k, vk, n) == [kind |-> k, val_kind |-> vk, name |-> n]
WrTransDef(tk, tn, k) == [target_kind |-> tk, target_name |-> tn, kind |-> k]

\* PortGroupDef as parse_ram_item leaves it for a port item with an empty
\* body: the default width, and the default clock unless the kind is Ar.
PortGroupDef(k, ns) ==
    [kind |-> k, names |-> ns,
     clock |-> IF k = "Ar" THEN <<>> ELSE <<Cap(ClockDef("Anyedge", ""), NoOpts, NoOpts)>>,
     width |-> <<Cap(1, NoOpts, NoOpts)>>,
     mixwidth |-> <<>>, addrce |-> <<>>, rden |-> <<>>, rdrstval |-> <<>>,
     rdsrstmode |-> <<>>, wrbe |-> <<>>, wrprio |-> <<>>, wrtrans |-> <<>>,
     wrcs |-> <<>>]

RamDef(id, k, ps, inits, styles) ==
    [id |-> id, kind |-> k, ports |-> ps,
     dims |-> <<Cap([abits |-> 10, dbits |-> 16], NoOpts, NoOpts)>>,
     init |-> inits, style |-> styles]

----------------------------------------------------------------------------
(* The candidate record.                                                   *)

\* History kept with each candidate: one entry per library capability the
\* candidate was built from: its kind, the port it was applied to ("ram",
\* "wr" or "rd" and the port index), its option maps, its payload and the
\* value it was matched against (rdrstval only).
Use(capname, ptype, pidx, cap, v, rv) ==
    [cap |-> capname, ptype |-> ptype, pidx |-> pidx,
     opts |-> cap.opts, portopts |-> cap.portopts, val |-> v, rv |-> rv]

\* WrPortConfig(): rd_port(-1)
WrPortConfig(pd) ==
    [rd_port |-> 0, port_def |-> pd, portopts |-> NoOpts, emu_prio |-> <<>>]

\* RdPortConfig(): wr_port(-1), every emu_ flag false
RdPortConfig(wp, pd) ==
    [wr_port |-> wp, port_def |-> pd, portopts |-> NoOpts, resetvals |-> <<>>,
     emu_sync |-> FALSE, emu_en |-> FALSE, emu_arst |-> FALSE, emu_srst |-> FALSE,
     emu_init |-> FALSE, emu_srst_en_prio |-> FALSE, emu_trans |-> <<>>]

\* MemConfig cfg; cfg.ram_def = i;
MemConfig(i) ==
    [ram_def |-> i, opts |-> NoOpts, wr_ports |-> <<>>, rd_ports |-> <<>>,
     clocks_anyedge |-> <<>>, clocks_pnedge |-> <<>>, caps_used |-> <<>>]

\* cfg with one more history entry.
Used(cfg, u) == [cfg EXCEPT !.caps_used = Append(@, u)]

apply_wrport_opts(cfg, pidx, cap) ==
    LET r1 == apply_opts(cfg.opts, cap.opts)
        r2 == apply_opts(cfg.wr_ports[pidx].portopts, cap.portopts)
    IN  IF ~r1.ok THEN [ok |-> FALSE, cfg |-> [cfg EXCEPT !.opts = r1.dst]]
        ELSE [ok |-> r2.ok,
              cfg |-> [cfg EXCEPT !.opts = r1.dst, !.wr_ports[pidx].portopts = r2.dst]]

apply_rdport_opts(cfg, pidx, cap) ==
    IF cfg.rd_ports[pidx].wr_port # 0
    THEN apply_wrport_opts(cfg, cfg.rd_ports[pidx].wr_port, cap)
    ELSE LET r1 == apply_opts(cfg.opts, cap.opts)
             r2 == apply_opts(cfg.rd_ports[pidx].portopts, cap.portopts)
         IN  IF ~r1.ok THEN [ok |-> FALSE, cfg |-> [cfg EXCEPT !.opts = r1.dst]]
             ELSE [ok |-> r2.ok,
                   cfg |-> [cfg EXCEPT !.opts = r1.dst,
                                       !.rd_ports[pidx].portopts = r2.dst]]

wrport_opts_applied(cfg, pidx, cap) ==
    /\ opts_applied(cfg.opts, cap.opts)
    /\ opts_applied(cfg.wr_ports[pidx].portopts, cap.portopts)

rdport_opts_applied(cfg, pidx, cap) ==
    IF cfg.rd_ports[pidx].wr_port # 0
    THEN wrport_opts_applied(cfg, cfg.rd_ports[pidx].wr_port, cap)
    ELSE /\ opts_applied(cfg.opts, cap.opts)
         /\ opts_applied(cfg.rd_ports[pidx].portopts, cap.portopts)

\* A plausible slip: an existing binding of the tag is not compared.
apply_clock_nocheck(cfg, def, clk, clk_polarity) ==
    [ok |-> TRUE, cfg |-> cfg]

\* bool apply_clock(MemConfig &cfg, const ClockDef &def, SigBit clk, bool clk_polarity)
apply_clock(cfg, def, clk, clk_polarity) ==
    IF def.name = "" THEN [ok |-> TRUE, cfg |-> cfg]
    ELSE IF def.kind = "Anyedge"
    THEN LET it == Find(cfg.clocks_anyedge, def.name)
         IN  IF it = 0
             THEN [ok |-> TRUE,
                   cfg |-> [cfg EXCEPT !.clocks_anyedge =
                               Append(@, [key |-> def.name, val |-> <<clk, clk_polarity>>])]]
             ELSE [ok |-> cfg.clocks_anyedge[it].val = <<clk, clk_polarity>>, cfg |-> cfg]
    ELSE LET flip == (clk_polarity # (def.kind = "Posedge"))
             it == Find(cfg.clocks_pnedge, def.name)
         IN  IF it = 0
             THEN [ok |-> TRUE,
                   cfg |-> [cfg EXCEPT !.clocks_pnedge =
                               Append(@, [key |-> def.name, val |-> <<clk, flip>>])]]
             ELSE [ok |-> cfg.clocks_pnedge[it].val = <<clk, flip>>, cfg |-> cfg]

\* A plausible slip: a tag that is already bound is rebound to the new value.
apply_rstval_rebind(pcfg, def, val) ==
    IF def.val_kind = "None" THEN [ok |-> FALSE, pcfg |-> pcfg]
    ELSE IF def.val_kind = "Zero"
    THEN [ok |-> \A b \in 1..Len(val) : val[b] # "1", pcfg |-> pcfg]
    ELSE [ok |-> TRUE, pcfg |-> [pcfg EXCEPT !.resetvals = DictSet(@, def.name, val)]]

\* apply_rstval with a zero capability matching every value.
apply_rstval_zero_any(pcfg, def, val) ==
    IF def.val_kind = "None" THEN [ok |-> FALSE, pcfg |-> pcfg]
    ELSE IF def.val_kind = "Zero" THEN [ok |-> TRUE, pcfg |-> pcfg]
    ELSE LET it == Find(pcfg.resetvals, def.name)
         IN  IF it = 0
             THEN [ok |-> TRUE,
                   pcfg |-> [pcfg EXCEPT !.resetvals =
                                Append(@, [key |-> def.name, val |-> val])]]
             ELSE [ok |-> pcfg.resetvals[it].val = val, pcfg |-> pcfg]

\* bool apply_rstval(RdPortConfig &pcfg, const ResetValDef &def, Const val)
apply_rstval(pcfg, def, val) ==
    IF def.val_kind = "None" THEN [ok |-> FALSE, pcfg |-> pcfg]
    ELSE IF def.val_kind = "Zero"
    THEN [ok |-> \A b \in 1..Len(val) : val[b] # "1", pcfg |-> pcfg]
    ELSE LET it == Find(pcfg.resetvals, def.name)
         IN  IF it = 0
             THEN [ok |-> TRUE,
                   pcfg |-> [pcfg EXCEPT !.resetvals =
                                Append(@, [key |-> def.name, val |-> val])]]
             ELSE [ok |-> pcfg.resetvals[it].val = val, pcfg |-> pcfg]

----------------------------------------------------------------------------
(* The abstract memory (kernel/mem.h), as far as the mapping reads it.     *)

\* Const(int) and Const(std::string), as memory attributes hold them.
IntConst(n) == [is_str |-> FALSE, i |-> n, s |-> ""]
StrConst(x) == [is_str |-> TRUE, i |-> 0, s |-> x]

\* Const::decode_string: a string constant gives its text back; the 32-bit
\* integer 0 decodes to the empty string (zero bytes are skipped) and any
\* other integer to bytes that spell none of the known style names.
decode_string(c) ==
    IF c.is_str THEN c.s ELSE IF c.i = 0 THEN "" ELSE "<bytes>"

\* Mem::has_attribute / attributes.at
has_attribute(attr) == Find(mem.attributes, attr) # 0
attribute_at(attr) == mem.attributes[Find(mem.attributes, attr)].val

\* Const::is_fully_undef
is_fully_undef(c) == \A b \in 1..Len(c) : c[b] = "x"

----------------------------------------------------------------------------
(* MemMapping::determine_style, determine_logic_ok.                        *)

\* The initializer list of the for loop in determine_style.
AttrOrder ==
    <<"ram_block", "rom_block", "ram_style", "rom_style",
      "ramstyle", "romstyle", "syn_ramstyle", "syn_romstyle">>

\* A plausible slip: the list is walked from the back.
AttrOrderReversed ==
    <<"syn_romstyle", "syn_ramstyle", "romstyle", "ramstyle",
      "rom_style", "ram_style", "rom_block", "ram_block">>

\* The body of the loop for one attribute that is present.
style_of_attr(val) ==
    IF (~val.is_str) /\ val.i = 1 THEN [kind |-> "NotLogic", style |-> ""]
    ELSE LET val_s == decode_string(val)
         IN  IF val_s = "auto" THEN [kind |-> "Auto", style |-> ""]
             ELSE IF val_s \in {"logic", "registers"} THEN [kind |-> "Logic", style |-> ""]
             ELSE IF val_s = "distributed" THEN [kind |-> "Distributed", style |-> ""]
             ELSE IF val_s \in {"block", "block_ram", "ebr"} THEN [kind |-> "Block", style |-> ""]
             ELSE IF val_s \in {"huge", "ultra"} THEN [kind |-> "Huge", style |-> ""]
             ELSE [kind |-> "NotLogic", style |-> val_s]

RECURSIVE determine_style_from(_, _)
\* The loop of determine_style at position a of the attribute list, and the
\* logic_block test that follows the loop.
determine_style_from(order, a) ==
    IF a > Len(order)
    THEN [kind |-> IF mem.logic_block THEN "Logic" ELSE "Auto", style |-> ""]
    ELSE IF has_attribute(order[a])
         THEN style_of_attr(attribute_at(order[a]))
         ELSE determine_style_from(order, a + 1)

\* A plausible slip: the attributes are tried in the reverse order.
determine_style_reversed == determine_style_from(AttrOrderReversed, 1)

\* void MemMapping::determine_style(): the values left in kind and style.
determine_style == determine_style_from(AttrOrder, 1)

\* A plausible slip: the clk_enable test is a comparison with the first port.
determine_logic_ok_same_enable ==
    IF kind \notin {"Auto", "Logic"} THEN FALSE
    ELSE IF mem.wr_ports = <<>> THEN TRUE
    ELSE \A p \in 1..Len(mem.wr_ports) :
            /\ mem.wr_ports[p].clk_enable = mem.wr_ports[1].clk_enable
            /\ mem.wr_ports[p].clk = mem.wr_ports[1].clk
            /\ mem.wr_ports[p].clk_polarity = mem.wr_ports[1].clk_polarity

\* bool MemMapping::determine_logic_ok(), reading the kind already determined.
determine_logic_ok ==
    IF kind \notin {"Auto", "Logic"} THEN FALSE
    ELSE IF mem.wr_ports = <<>> THEN TRUE
    ELSE \A p \in 1..Len(mem.wr_ports) :
            /\ mem.wr_ports[p].clk_enable
            /\ mem.wr_ports[p].clk = mem.wr_ports[1].clk
            /\ mem.wr_ports[p].clk_polarity = mem.wr_ports[1].clk_polarity

----------------------------------------------------------------------------
(* The filters: handle_ram_kind, handle_ram_style, handle_init.            *)

\* handle_ram_kind that keeps the candidates of every kind but logic.
handle_ram_kind_any(cs) ==
    IF kind \in {"Auto", "NotLogic"} THEN cs
    ELSE SelectSeq(cs, LAMBDA cfg : lib[cfg.ram_def].kind # "Logic")

\* The candidates handle_ram_kind leaves (before its log_error test).
handle_ram_kind(cs) ==
    IF kind \in {"Auto", "NotLogic"} THEN cs
    ELSE SelectSeq(cs, LAMBDA cfg : lib[cfg.ram_def].kind = kind)

\* The candidates handle_ram_style leaves (before its log_error test).
handle_ram_style(cs) ==
    IF style = "" THEN cs
    ELSE Flatten([c \in 1..Len(cs) |->
            LET cfg == cs[c]
                defs == lib[cfg.ram_def].style
            IN  Flatten([d \in 1..Len(defs) |->
                    LET def == defs[d]
                        r == apply_opts(cfg.opts, def.opts)
                    IN  IF def.val # style THEN <<>>
                        ELSE IF ~r.ok THEN <<>>
                        ELSE <<Used([cfg EXCEPT !.opts = r.dst],
                                    Use("style", "ram", 0, def, "", ""))>>])])

\* has_nonx and has_one of handle_init.
has_nonx == \E i \in 1..Len(mem.inits) : ~is_fully_undef(mem.inits[i])
has_one ==
    \E i \in 1..Len(mem.inits) :
        /\ ~is_fully_undef(mem.inits[i])
        /\ \E b \in 1..Len(mem.inits[i]) : mem.inits[i][b] = "1"

\* handle_init with a zero capability taken for every initializer.
handle_init_zero_fits(cs) ==
    IF ~has_nonx THEN cs
    ELSE Flatten([c \in 1..Len(cs) |->
            LET cfg == cs[c]
                defs == lib[cfg.ram_def].init
            IN  Flatten([d \in 1..Len(defs) |->
                    LET def == defs[d]
                        r == apply_opts(cfg.opts, def.opts)
                    IN  IF def.val \notin {"Any", "Zero"} THEN <<>>
                        ELSE IF ~r.ok THEN <<>>
                        ELSE <<Used([cfg EXCEPT !.opts = r.dst],
                                    Use("init", "ram", 0, def, "", ""))>>])])

\* void MemMapping::handle_init(): the candidates it leaves.
handle_init(cs) ==
    IF ~has_nonx THEN cs
    ELSE Flatten([c \in 1..Len(cs) |->
            LET cfg == cs[c]
                defs == lib[cfg.ram_def].init
            IN  Flatten([d \in 1..Len(defs) |->
                    LET def == defs[d]
                        r == apply_opts(cfg.opts, def.opts)
                    IN  IF has_one /\ def.val # "Any" THEN <<>>
                        ELSE IF (~has_one) /\ def.val \notin {"Any", "Zero"} THEN <<>>
                        ELSE IF ~r.ok THEN <<>>
                        ELSE <<Used([cfg EXCEPT !.opts = r.dst],
                                    Use("init", "ram", 0, def, "", ""))>>])])

----------------------------------------------------------------------------
(* MemMapping::handle_wr_ports.                                            *)

\* The number of write ports the candidate has bound to port group i.
wr_used(cfg, i) ==
    Cardinality({o \in 1..Len(cfg.wr_ports) : cfg.wr_ports[o].port_def = i})

\* A plausible slip: the free-port test is left out.
wr_port_free_always(cfg, i) == TRUE

\* The test "used >= GetSize(def.val.names)" of both binding passes, negated.
wr_port_free(cfg, i) ==
    wr_used(cfg, i) < Len(lib[cfg.ram_def].ports[i].val.names)

\* The clones one candidate gives for write port pidx: the body of the loop
\* over cfgs.
wr_port_clones(cfg, pidx) ==
    LET port == mem.wr_ports[pidx]
        ram_def == lib[cfg.ram_def]
    IN  Flatten([i \in 1..Len(ram_def.ports) |->
            LET def == ram_def.ports[i]
                r2 == apply_opts(cfg.opts, def.opts)
                cfg2 == Used([cfg EXCEPT !.opts = r2.dst],
                             Use("ports", "wr", pidx, def, "", ""))
                pcfg2 == WrPortConfig(i)
            IN  IF def.val.kind \in {"Ar", "Sr"} THEN <<>>
                ELSE IF ~wr_port_free(cfg, i) THEN <<>>
                ELSE IF ~r2.ok THEN <<>>
                ELSE Flatten([c \in 1..Len(def.val.clock) |->
                        LET cdef == def.val.clock[c]
                            r3 == apply_opts(cfg2.opts, cdef.opts)
                            p3 == apply_opts(pcfg2.portopts, cdef.portopts)
                            cl == apply_clock([cfg2 EXCEPT !.opts = r3.dst], cdef.val,
                                              port.clk, port.clk_polarity)
                        IN  IF ~r3.ok THEN <<>>
                            ELSE IF ~p3.ok THEN <<>>
                            ELSE IF ~cl.ok THEN <<>>
                            ELSE <<Used([cl.cfg EXCEPT !.wr_ports =
                                            Append(@, [pcfg2 EXCEPT !.portopts = p3.dst])],
                                        Use("clock", "wr", pidx, cdef, cdef.val, ""))>>])])

RECURSIVE handle_wr_ports_from(_, _)
\* The loop over mem.wr_ports from port pidx on.
handle_wr_ports_from(cs, pidx) ==
    IF pidx > Len(mem.wr_ports) THEN cs
    ELSE IF ~mem.wr_ports[pidx].clk_enable THEN <<>>
    ELSE handle_wr_ports_from(
            Flatten([c \in 1..Len(cs) |-> wr_port_clones(cs[c], pidx)]), pidx + 1)

\* A plausible slip: an asynchronous write port is skipped, not refused.
handle_wr_ports_skip_async(cs) ==
    LET RECURSIVE go(_, _)
        go(xs, pidx) ==
            IF pidx > Len(mem.wr_ports) THEN xs
            ELSE go(Flatten([c \in 1..Len(xs) |-> wr_port_clones(xs[c], pidx)]), pidx + 1)
    IN  go(cs, 1)

handle_wr_ports(cs) == handle_wr_ports_from(cs, 1)

----------------------------------------------------------------------------
(* The netlist around the memory, as the mapping queries it.               *)

\* The free inputs of the cone feeding the enables, and their assignments
\* (an assignment is the set of inputs that are 1).
SatVars == {"p", "q"}
Assignments == SUBSET SatVars

\* The value of a signal bit of the module under an assignment: constants,
\* the inputs p and q, and the wires driven by the cells p|q, p&q and !p.
SigVal(bit, asg) ==
    CASE bit = "1" -> TRUE
      [] bit = "0" -> FALSE
      [] bit = "p" -> "p" \in asg
      [] bit = "q" -> "q" \in asg
      [] bit = "p|q" -> ("p" \in asg) \/ ("q" \in asg)
      [] bit = "p&q" -> ("p" \in asg) /\ ("q" \in asg)
      [] bit = "!p" -> "p" \notin asg
      [] OTHER -> FALSE

\* MapWorker::sigmap_xmux on one bit: the wire "a0m" is the output of a $mux
\* whose A input is fully undefined and whose B input is a0.
sigmap_xmux(bit) == IF bit = "a0m" THEN "a0" ELSE bit

\* SigSpec::extract_end(offset) and extend_u0(width)
extract_end(sig, offset) == SubSeq(sig, offset + 1, Len(sig))
extend_u0(sig, width) ==
    [i \in 1..(IF width > Len(sig) THEN width ELSE Len(sig)) |->
        IF i <= Len(sig) THEN sig[i] ELSE "0"]

Max(a, b) == IF a > b THEN a ELSE b

\* bool MemMapping::addr_compatible(int wpidx, int rpidx)
addr_compatible_common_bits(wpidx, rpidx) ==
    LET wport == mem.wr_ports[wpidx]
        rport == mem.rd_ports[rpidx]
        max_wide_log2 == Max(rport.wide_log2, wport.wide_log2)
        raddr == extract_end(rport.addr, max_wide_log2)
        waddr == extract_end(wport.addr, max_wide_log2)
    IN  \A i \in 1..Len(raddr) :
            i <= Len(waddr) => sigmap_xmux(raddr[i]) = sigmap_xmux(waddr[i])
addr_compatible(wpidx, rpidx) ==
    LET wport == mem.wr_ports[wpidx]
        rport == mem.rd_ports[rpidx]
        max_wide_log2 == Max(rport.wide_log2, wport.wide_log2)
        raddr == extract_end(rport.addr, max_wide_log2)
        waddr == extract_end(wport.addr, max_wide_log2)
        abits == Max(Len(raddr), Len(waddr))
        ra == extend_u0(raddr, abits)
        wa == extend_u0(waddr, abits)
    IN  [i \in 1..Len(ra) |-> sigmap_xmux(ra[i])] = [i \in 1..Len(wa) |-> sigmap_xmux(wa[i])]

\* get_wr_en looking at the first bit of en only.
get_wr_en_first_bit(wpidx) ==
    {asg \in Assignments : SigVal(mem.wr_ports[wpidx].en[1], asg)}

\* get_wr_en: the expression OR(bits of en), as its satisfying assignments.
get_wr_en(wpidx) ==
    {asg \in Assignments :
        \E b \in 1..Len(mem.wr_ports[wpidx].en) : SigVal(mem.wr_ports[wpidx].en[b], asg)}

\* get_wr_implies_rd: !solve(wr_en, NOT(rd_en)); the cache only saves work.
get_wr_implies_rd(wpidx, rpidx) ==
    ~ \E asg \in get_wr_en(wpidx) : ~SigVal(mem.rd_ports[rpidx].en, asg)

\* get_wr_excludes_rd: !solve(wr_en, rd_en)
get_wr_excludes_rd(wpidx, rpidx) ==
    ~ \E asg \in get_wr_en(wpidx) : SigVal(mem.rd_ports[rpidx].en, asg)

----------------------------------------------------------------------------
(* MemMapping::handle_rd_ports.                                            *)

\* rd_port_unshared that also offers the sync groups to an async port.
rd_port_unshared_any_clocking(cfg, pidx) ==
    LET port == mem.rd_ports[pidx]
        ram_def == lib[cfg.ram_def]
    IN  Flatten([i \in 1..Len(ram_def.ports) |->
            LET def == ram_def.ports[i]
                r2 == apply_opts(cfg.opts, def.opts)
                cfg2 == Used([cfg EXCEPT !.opts = r2.dst],
                             Use("ports", "rd", pidx, def, "", ""))
                pcfg2 == RdPortConfig(0, i)
            IN  IF def.val.kind = "Sw" THEN <<>>
                ELSE IF ~wr_port_free(cfg, i) THEN <<>>
                ELSE IF ~r2.ok THEN <<>>
                ELSE IF def.val.kind \in {"Sr", "Srsw"}
                THEN Flatten([c \in 1..Len(def.val.clock) |->
                        LET cdef == def.val.clock[c]
                            r3 == apply_opts(cfg2.opts, cdef.opts)
                            p3 == apply_opts(pcfg2.portopts, cdef.portopts)
                            cl == apply_clock([cfg2 EXCEPT !.opts = r3.dst], cdef.val,
                                              port.clk, port.clk_polarity)
                            cfg3 == Used(cl.cfg, Use("clock", "rd", pidx, cdef, cdef.val, ""))
                        IN  IF ~r3.ok THEN <<>>
                            ELSE IF ~p3.ok THEN <<>>
                            ELSE IF ~cl.ok THEN <<>>
                            ELSE Flatten([e \in 1..Len(def.val.rden) |->
                                    LET endef == def.val.rden[e]
                                        r4 == apply_opts(cfg3.opts, endef.opts)
                                        p4 == apply_opts(p3.dst, endef.portopts)
                                        pcfg4 == [pcfg2 EXCEPT
                                                    !.portopts = p4.dst,
                                                    !.emu_en = (endef.val = "None" /\ port.en # "1")]
                                    IN  IF ~r4.ok THEN <<>>
                                        ELSE IF ~p4.ok THEN <<>>
                                        ELSE <<Used([cfg3 EXCEPT !.opts = r4.dst,
                                                                 !.rd_ports = Append(@, pcfg4)],
                                                    Use("rden", "rd", pidx, endef, endef.val, ""))>>])])
                ELSE <<[cfg2 EXCEPT !.rd_ports =
                            Append(@, [pcfg2 EXCEPT !.emu_sync = port.clk_enable])]>>])

\* First pass: the read port is not shared with a write port.
rd_port_unshared(cfg, pidx) ==
    LET port == mem.rd_ports[pidx]
        ram_def == lib[cfg.ram_def]
    IN  Flatten([i \in 1..Len(ram_def.ports) |->
            LET def == ram_def.ports[i]
                r2 == apply_opts(cfg.opts, def.opts)
                cfg2 == Used([cfg EXCEPT !.opts = r2.dst],
                             Use("ports", "rd", pidx, def, "", ""))
                pcfg2 == RdPortConfig(0, i)
            IN  IF def.val.kind = "Sw" THEN <<>>
                ELSE IF (~port.clk_enable) /\ def.val.kind \in {"Sr", "Srsw"} THEN <<>>
                ELSE IF ~wr_port_free(cfg, i) THEN <<>>
                ELSE IF ~r2.ok THEN <<>>
                ELSE IF def.val.kind \in {"Sr", "Srsw"}
                THEN Flatten([c \in 1..Len(def.val.clock) |->
                        LET cdef == def.val.clock[c]
                            r3 == apply_opts(cfg2.opts, cdef.opts)
                            p3 == apply_opts(pcfg2.portopts, cdef.portopts)
                            cl == apply_clock([cfg2 EXCEPT !.opts = r3.dst], cdef.val,
                                              port.clk, port.clk_polarity)
                            cfg3 == Used(cl.cfg, Use("clock", "rd", pidx, cdef, cdef.val, ""))
                        IN  IF ~r3.ok THEN <<>>
                            ELSE IF ~p3.ok THEN <<>>
                            ELSE IF ~cl.ok THEN <<>>
                            ELSE Flatten([e \in 1..Len(def.val.rden) |->
                                    LET endef == def.val.rden[e]
                                        r4 == apply_opts(cfg3.opts, endef.opts)
                                        p4 == apply_opts(p3.dst, endef.portopts)
                                        pcfg4 == [pcfg2 EXCEPT
                                                    !.portopts = p4.dst,
                                                    !.emu_en = (endef.val = "None" /\ port.en # "1")]
                                    IN  IF ~r4.ok THEN <<>>
                                        ELSE IF ~p4.ok THEN <<>>
                                        ELSE <<Used([cfg3 EXCEPT !.opts = r4.dst,
                                                                 !.rd_ports = Append(@, pcfg4)],
                                                    Use("rden", "rd", pidx, endef, endef.val, ""))>>])])
                ELSE <<[cfg2 EXCEPT !.rd_ports =
                            Append(@, [pcfg2 EXCEPT !.emu_sync = port.clk_enable])]>>])

\* rd_port_shared_at with a write-excludes capability taken without the query.
rd_port_shared_at_keep_excluded(cfg, pidx, wpidx) ==
    LET port == mem.rd_ports[pidx]
        wport == mem.wr_ports[wpidx]
        didx == cfg.wr_ports[wpidx].port_def
        def == lib[cfg.ram_def].ports[didx]
        cfg2 == Used([cfg EXCEPT !.wr_ports[wpidx].rd_port = pidx],
                     Use("ports", "rd", pidx, def, "", ""))
        pcfg2 == [RdPortConfig(wpidx, didx) EXCEPT
                    !.emu_sync = (port.clk_enable /\ def.val.kind = "Arsw")]
    IN  IF cfg.wr_ports[wpidx].rd_port # 0 THEN <<>>
        ELSE IF def.val.kind = "Sw" THEN <<>>
        ELSE IF ~addr_compatible(wpidx, pidx) THEN <<>>
        ELSE IF def.val.kind = "Srsw" /\
                (\/ ~port.clk_enable
                 \/ port.clk # wport.clk
                 \/ port.clk_polarity # wport.clk_polarity) THEN <<>>
        ELSE IF def.val.kind = "Srsw"
        THEN Flatten([e \in 1..Len(def.val.rden) |->
                LET endef == def.val.rden[e]
                    r3 == apply_wrport_opts(cfg2, wpidx, endef)
                    emu_en ==
                        CASE endef.val = "None" -> port.en # "1"
                          [] endef.val = "WriteImplies" -> ~get_wr_implies_rd(wpidx, pidx)
                          [] OTHER -> FALSE
                IN  IF ~r3.ok THEN <<>>
                    ELSE <<Used([r3.cfg EXCEPT !.rd_ports =
                                    Append(@, [pcfg2 EXCEPT !.emu_en = emu_en])],
                                Use("rden", "rd", pidx, endef, endef.val, ""))>>])
        ELSE <<[cfg2 EXCEPT !.rd_ports = Append(@, pcfg2)]>>

\* Second pass, the body of the loop over the write ports: the read port is
\* shared with write port wpidx.
rd_port_shared_at(cfg, pidx, wpidx) ==
    LET port == mem.rd_ports[pidx]
        wport == mem.wr_ports[wpidx]
        didx == cfg.wr_ports[wpidx].port_def
        def == lib[cfg.ram_def].ports[didx]
        cfg2 == Used([cfg EXCEPT !.wr_ports[wpidx].rd_port = pidx],
                     Use("ports", "rd", pidx, def, "", ""))
        pcfg2 == [RdPortConfig(wpidx, didx) EXCEPT
                    !.emu_sync = (port.clk_enable /\ def.val.kind = "Arsw")]
    IN  IF cfg.wr_ports[wpidx].rd_port # 0 THEN <<>>
        ELSE IF def.val.kind = "Sw" THEN <<>>
        ELSE IF ~addr_compatible(wpidx, pidx) THEN <<>>
        ELSE IF def.val.kind = "Srsw" /\
                (\/ ~port.clk_enable
                 \/ port.clk # wport.clk
                 \/ port.clk_polarity # wport.clk_polarity) THEN <<>>
        ELSE IF def.val.kind = "Srsw"
        THEN Flatten([e \in 1..Len(def.val.rden) |->
                LET endef == def.val.rden[e]
                    r3 == apply_wrport_opts(cfg2, wpidx, endef)
                    emu_en ==
                        CASE endef.val = "None" -> port.en # "1"
                          [] endef.val = "WriteImplies" -> ~get_wr_implies_rd(wpidx, pidx)
                          [] OTHER -> FALSE
                IN  IF ~r3.ok THEN <<>>
                    ELSE IF endef.val = "WriteExcludes" /\ ~get_wr_excludes_rd(wpidx, pidx)
                    THEN <<>>
                    ELSE <<Used([r3.cfg EXCEPT !.rd_ports =
                                    Append(@, [pcfg2 EXCEPT !.emu_en = emu_en])],
                                Use("rden", "rd", pidx, endef, endef.val, ""))>>])
        ELSE <<[cfg2 EXCEPT !.rd_ports = Append(@, pcfg2)]>>

\* Second pass: the read port is shared with a write port.
rd_port_shared(cfg, pidx) ==
    Flatten([wpidx \in 1..Len(mem.wr_ports) |-> rd_port_shared_at(cfg, pidx, wpidx)])

RECURSIVE handle_rd_ports_from(_, _)
\* The loop over mem.rd_ports from port pidx on.
handle_rd_ports_from(cs, pidx) ==
    IF pidx > Len(mem.rd_ports) THEN cs
    ELSE handle_rd_ports_from(
            Flatten([c \in 1..Len(cs) |->
                rd_port_unshared(cs[c], pidx) \o rd_port_shared(cs[c], pidx)]),
            pidx + 1)

handle_rd_ports(cs) == handle_rd_ports_from(cs, 1)

RECURSIVE handle_rd_ports_steps(_, _)
\* The runs of the second pass of handle_rd_ports: the candidate it was
\* given, the read and the write port, the candidates it pushed for that
\* write port, and all the candidates pushed for the candidate and the port.
handle_rd_ports_steps(cs, pidx) ==
    IF pidx > Len(mem.rd_ports) THEN {}
    ELSE {[phase |-> "handle_rd_ports", cfg |-> cs[c], rpidx |-> pidx, wpidx |-> w,
           out |-> rd_port_shared_at(cs[c], pidx, w),
           pushed |-> rd_port_unshared(cs[c], pidx) \o rd_port_shared(cs[c], pidx)] :
            c \in 1..Len(cs), w \in 1..Len(mem.wr_ports)}
         \cup handle_rd_ports_steps(
                Flatten([c \in 1..Len(cs) |->
                    rd_port_unshared(cs[c], pidx) \o rd_port_shared(cs[c], pidx)]),
                pidx + 1)

----------------------------------------------------------------------------
(* MemMapping::handle_trans.                                               *)

\* The switch on tdef.val.target_kind, and the test of the transparency kind.
trans_cap_usable(cfg, rpidx, wpidx, tdef, transparent) ==
    LET rpdef == lib[cfg.ram_def].ports[cfg.rd_ports[rpidx].port_def]
    IN  /\ CASE tdef.val.target_kind = "Self" -> cfg.wr_ports[wpidx].rd_port = rpidx
             [] tdef.val.target_kind = "Other" -> cfg.wr_ports[wpidx].rd_port # rpidx
             [] OTHER -> rpdef.val.names[1] = tdef.val.target_name
        /\ IF transparent THEN tdef.val.kind # "Old" ELSE tdef.val.kind = "Old"

\* trans_clones with the emulation clone emitted for every transparent pair.
trans_clones_always_emulated(cfg, rpidx, wpidx, transparent) ==
    LET wpdef == lib[cfg.ram_def].ports[cfg.wr_ports[wpidx].port_def]
        caps == wpdef.val.wrtrans
        emulated == [cfg EXCEPT !.rd_ports[rpidx].emu_trans = Append(@, wpidx)]
    IN  IF cfg.rd_ports[rpidx].emu_sync
        THEN <<IF transparent THEN emulated ELSE cfg>>
        ELSE Flatten([t \in 1..Len(caps) |->
                LET tdef == caps[t]
                    r == apply_wrport_opts(cfg, wpidx, tdef)
                    u == Use("wrtrans", "wr", wpidx, tdef, tdef.val, "")
                IN  IF ~trans_cap_usable(cfg, rpidx, wpidx, tdef, transparent) THEN <<>>
                    ELSE IF wrport_opts_applied(cfg, wpidx, tdef) THEN <<Used(cfg, u)>>
                    ELSE IF ~r.ok THEN <<>>
                    ELSE <<Used(r.cfg, u)>>])
             \o (IF transparent THEN <<emulated>> ELSE <<>>)

\* The body of the loop over cfgs for the pair (rpidx, wpidx).
trans_clones(cfg, rpidx, wpidx, transparent) ==
    LET wpdef == lib[cfg.ram_def].ports[cfg.wr_ports[wpidx].port_def]
        caps == wpdef.val.wrtrans
        emulated == [cfg EXCEPT !.rd_ports[rpidx].emu_trans = Append(@, wpidx)]
        found_free ==
            \E t \in 1..Len(caps) :
                /\ trans_cap_usable(cfg, rpidx, wpidx, caps[t], transparent)
                /\ wrport_opts_applied(cfg, wpidx, caps[t])
    IN  IF cfg.rd_ports[rpidx].emu_sync
        THEN <<IF transparent THEN emulated ELSE cfg>>
        ELSE Flatten([t \in 1..Len(caps) |->
                LET tdef == caps[t]
                    r == apply_wrport_opts(cfg, wpidx, tdef)
                    u == Use("wrtrans", "wr", wpidx, tdef, tdef.val, "")
                IN  IF ~trans_cap_usable(cfg, rpidx, wpidx, tdef, transparent) THEN <<>>
                    ELSE IF wrport_opts_applied(cfg, wpidx, tdef) THEN <<Used(cfg, u)>>
                    ELSE IF ~r.ok THEN <<>>
                    ELSE <<Used(r.cfg, u)>>])
             \o (IF (~found_free) /\ transparent THEN <<emulated>> ELSE <<>>)

\* trans_pair_relevant without the test of collision_x_mask.
trans_pair_relevant_ignoring_x(rpidx, wpidx) ==
    LET rport == mem.rd_ports[rpidx]
        wport == mem.wr_ports[wpidx]
    IN  /\ rport.clk_enable
        /\ wport.clk_enable
        /\ rport.clk = wport.clk
        /\ rport.clk_polarity = wport.clk_polarity

\* The tests that skip a pair of ports in handle_trans, negated.
trans_pair_relevant(rpidx, wpidx) ==
    LET rport == mem.rd_ports[rpidx]
        wport == mem.wr_ports[wpidx]
    IN  /\ rport.clk_enable
        /\ wport.clk_enable
        /\ rport.clk = wport.clk
        /\ rport.clk_polarity = wport.clk_polarity
        /\ ~rport.collision_x_mask[wpidx]

RECURSIVE handle_trans_from(_, _, _)
\* The two nested loops, from the pair (rpidx, wpidx) on.
handle_trans_from(cs, rpidx, wpidx) ==
    IF rpidx > Len(mem.rd_ports) THEN cs
    ELSE IF wpidx > Len(mem.wr_ports) THEN handle_trans_from(cs, rpidx + 1, 1)
    ELSE IF ~trans_pair_relevant(rpidx, wpidx) THEN handle_trans_from(cs, rpidx, wpidx + 1)
    ELSE handle_trans_from(
            Flatten([c \in 1..Len(cs) |->
                trans_clones(cs[c], rpidx, wpidx,
                             mem.rd_ports[rpidx].transparency_mask[wpidx])]),
            rpidx, wpidx + 1)

handle_trans(cs) == handle_trans_from(cs, 1, 1)

RECURSIVE handle_trans_steps(_, _, _)
\* The runs of the loop body in handle_trans: the candidate it was given, the
\* pair of ports, and the candidates it pushed.
handle_trans_steps(cs, rpidx, wpidx) ==
    IF rpidx > Len(mem.rd_ports) THEN {}
    ELSE IF wpidx > Len(mem.wr_ports) THEN handle_trans_steps(cs, rpidx + 1, 1)
    ELSE IF ~trans_pair_relevant(rpidx, wpidx) THEN handle_trans_steps(cs, rpidx, wpidx + 1)
    ELSE LET tr == mem.rd_ports[rpidx].transparency_mask[wpidx]
         IN  {[phase |-> "handle_trans", cfg |-> cs[c], rpidx |-> rpidx, wpidx |-> wpidx,
               out |-> trans_clones(cs[c], rpidx, wpidx, tr)] : c \in 1..Len(cs)}
             \cup handle_trans_steps(
                    Flatten([c \in 1..Len(cs) |-> trans_clones(cs[c], rpidx, wpidx, tr)]),
                    rpidx, wpidx + 1)

----------------------------------------------------------------------------
(* MemMapping::handle_priority.                                            *)
(* The source looks write port p1idx up in cfg.rd_ports.  When p1idx is    *)
(* not an index of rd_ports the read is outside the vector: the build may  *)
(* crash, or go on with whatever it finds there as p1's first port name.   *)
(* ub is that outcome: "crash" or the name found.                          *)

\* Whether the lookup cfg.rd_ports[p1idx] is outside the vector.
prio_oob(cfg, p1idx) == p1idx > Len(cfg.rd_ports)

\* p1def.val.names[0] as the source computes it.
prio_p1_name(cfg, p1idx, ub) ==
    IF prio_oob(cfg, p1idx) THEN ub
    ELSE lib[cfg.ram_def].ports[cfg.rd_ports[p1idx].port_def].val.names[1]

\* prio_clones that marks the candidate before it clones it.
prio_clones_marked_parent(cfg, p1idx, p2idx, ub) ==
    LET p2def == lib[cfg.ram_def].ports[cfg.wr_ports[p2idx].port_def]
        caps == p2def.val.wrprio
        name == prio_p1_name(cfg, p1idx, ub)
        found_free ==
            \E t \in 1..Len(caps) :
                caps[t].val = name /\ wrport_opts_applied(cfg, p2idx, caps[t])
        marked == [cfg EXCEPT !.wr_ports[p2idx].emu_prio = Append(@, p1idx)]
    IN  Flatten([t \in 1..Len(caps) |->
            LET prdef == caps[t]
                r == apply_wrport_opts(marked, p2idx, prdef)
                u == Use("wrprio", "wr", p2idx, prdef, prdef.val, "")
            IN  IF name # prdef.val THEN <<>>
                ELSE IF wrport_opts_applied(cfg, p2idx, prdef) THEN <<Used(marked, u)>>
                ELSE IF ~r.ok THEN <<>>
                ELSE <<Used(r.cfg, u)>>])
        \o (IF ~found_free
            THEN <<[cfg EXCEPT !.wr_ports[p2idx].emu_prio = Append(@, p1idx)]>>
            ELSE <<>>)

\* The body of the loop over cfgs for the pair (p1idx, p2idx).
prio_clones(cfg, p1idx, p2idx, ub) ==
    LET p2def == lib[cfg.ram_def].ports[cfg.wr_ports[p2idx].port_def]
        caps == p2def.val.wrprio
        name == prio_p1_name(cfg, p1idx, ub)
        found_free ==
            \E t \in 1..Len(caps) :
                caps[t].val = name /\ wrport_opts_applied(cfg, p2idx, caps[t])
    IN  Flatten([t \in 1..Len(caps) |->
            LET prdef == caps[t]
                r == apply_wrport_opts(cfg, p2idx, prdef)
                u == Use("wrprio", "wr", p2idx, prdef, prdef.val, "")
            IN  IF name # prdef.val THEN <<>>
                ELSE IF wrport_opts_applied(cfg, p2idx, prdef) THEN <<Used(cfg, u)>>
                ELSE IF ~r.ok THEN <<>>
                ELSE <<Used(r.cfg, u)>>])
        \o (IF ~found_free
            THEN <<[cfg EXCEPT !.wr_ports[p2idx].emu_prio = Append(@, p1idx)]>>
            ELSE <<>>)

\* History: what the lookup of p1's group gave for one candidate: the
\* name used, and the first name of the group write port p1idx is bound to.
prio_lookup(cfg, p1idx, p2idx, ub) ==
    [p1 |-> p1idx, p2 |-> p2idx, oob |-> prio_oob(cfg, p1idx),
     name |-> prio_p1_name(cfg, p1idx, ub),
     wr_name |-> lib[cfg.ram_def].ports[cfg.wr_ports[p1idx].port_def].val.names[1]]

RECURSIVE handle_priority_from(_, _, _, _)
\* The two nested loops, from the pair (p1idx, p2idx) on: the candidates
\* left, with the lookups done on the way and the runs of the loop body
\* (the candidate it was given, the pair, with p1idx as rpidx and p2idx as
\* wpidx, and the candidates it pushed).
handle_priority_from(st, p1idx, p2idx, ub) ==
    IF p1idx > Len(mem.wr_ports) THEN st
    ELSE IF p2idx > Len(mem.wr_ports) THEN handle_priority_from(st, p1idx + 1, 1, ub)
    ELSE IF ~mem.wr_ports[p2idx].priority_mask[p1idx]
         THEN handle_priority_from(st, p1idx, p2idx + 1, ub)
    ELSE handle_priority_from(
            [cfgs |-> Flatten([c \in 1..Len(st.cfgs) |->
                        prio_clones(st.cfgs[c], p1idx, p2idx, ub)]),
             trace |-> st.trace \cup
                        {prio_lookup(st.cfgs[c], p1idx, p2idx, ub) : c \in 1..Len(st.cfgs)},
             steps |-> st.steps \cup
                        {[phase |-> "handle_priority", cfg |-> st.cfgs[c],
                          rpidx |-> p1idx, wpidx |-> p2idx,
                          out |-> prio_clones(st.cfgs[c], p1idx, p2idx, ub)] :
                            c \in 1..Len(st.cfgs)}],
            p1idx, p2idx + 1, ub)

handle_priority(cs, ub) ==
    handle_priority_from([cfgs |-> cs, trace |-> {}, steps |-> {}], 1, 1, ub)

----------------------------------------------------------------------------
(* MemMapping::handle_rd_init, handle_rd_arst, handle_rd_srst.             *)

\* One rdrstval capability tried on a candidate: cfg2 after apply_rstval
\* and the option merge, whether it survives, and whether it was free.
rst_try(cfg, pidx, rstdef, val) ==
    LET rv == apply_rstval(cfg.rd_ports[pidx], rstdef.val, val)
        cfg2 == [cfg EXCEPT !.rd_ports[pidx] = rv.pcfg]
        free == rdport_opts_applied(cfg2, pidx, rstdef)
        r == apply_rdport_opts(cfg2, pidx, rstdef)
    IN  [ok |-> rv.ok /\ (free \/ r.ok),
         free |-> rv.ok /\ free,
         cfg |-> Used(IF free THEN cfg2 ELSE r.cfg,
                      Use("rdrstval", "rd", pidx, rstdef, rstdef.val, val))]

\* rst_clones that looks for a capability for a port emulated by an async one.
rst_clones_no_passthrough(cfg, pidx, rkind, val) ==
    LET caps == lib[cfg.ram_def].ports[cfg.rd_ports[pidx].port_def].val.rdrstval
        found_free ==
            \E t \in 1..Len(caps) :
                caps[t].val.kind = rkind /\ rst_try(cfg, pidx, caps[t], val).free
        emulated ==
            IF rkind = "Init" THEN [cfg EXCEPT !.rd_ports[pidx].emu_init = TRUE]
            ELSE [cfg EXCEPT !.rd_ports[pidx].emu_arst = TRUE]
    IN  Flatten([t \in 1..Len(caps) |->
                LET try == rst_try(cfg, pidx, caps[t], val)
                IN  IF caps[t].val.kind # rkind THEN <<>>
                    ELSE IF ~try.ok THEN <<>>
                    ELSE <<try.cfg>>])
             \o (IF ~found_free THEN <<emulated>> ELSE <<>>)

\* The body of the loop over cfgs in handle_rd_init (rkind "Init", flag
\* emu_init) and handle_rd_arst (rkind "Async", flag emu_arst).
rst_clones(cfg, pidx, rkind, val) ==
    LET caps == lib[cfg.ram_def].ports[cfg.rd_ports[pidx].port_def].val.rdrstval
        found_free ==
            \E t \in 1..Len(caps) :
                caps[t].val.kind = rkind /\ rst_try(cfg, pidx, caps[t], val).free
        emulated ==
            IF rkind = "Init" THEN [cfg EXCEPT !.rd_ports[pidx].emu_init = TRUE]
            ELSE [cfg EXCEPT !.rd_ports[pidx].emu_arst = TRUE]
    IN  IF cfg.rd_ports[pidx].emu_sync THEN <<cfg>>
        ELSE Flatten([t \in 1..Len(caps) |->
                LET try == rst_try(cfg, pidx, caps[t], val)
                IN  IF caps[t].val.kind # rkind THEN <<>>
                    ELSE IF ~try.ok THEN <<>>
                    ELSE <<try.cfg>>])
             \o (IF ~found_free THEN <<emulated>> ELSE <<>>)

\* The split across rdsrstmode capabilities for a port whose enable is in use.
srst_mode_clones(cfg2, pidx) ==
    LET port == mem.rd_ports[pidx]
        caps == lib[cfg2.ram_def].ports[cfg2.rd_ports[pidx].port_def].val.rdsrstmode
    IN  Flatten([m \in 1..Len(caps) |->
            LET mdef == caps[m]
                prio == \/ (mdef.val = "SrstOverEn" /\ port.ce_over_srst)
                        \/ (mdef.val = "EnOverSrst" /\ ~port.ce_over_srst)
                cfg3 == IF prio THEN [cfg2 EXCEPT !.rd_ports[pidx].emu_srst_en_prio = TRUE]
                        ELSE cfg2
                r == apply_rdport_opts(cfg3, pidx, mdef)
            IN  IF ~r.ok THEN <<>>
                ELSE <<Used(r.cfg, Use("rdsrstmode", "rd", pidx, mdef, mdef.val, ""))>>])

\* The body of the loop over cfgs in handle_rd_srst.
srst_clones(cfg, pidx) ==
    LET port == mem.rd_ports[pidx]
        caps == lib[cfg.ram_def].ports[cfg.rd_ports[pidx].port_def].val.rdrstval
        found_free ==
            \E t \in 1..Len(caps) :
                caps[t].val.kind = "Sync" /\ rst_try(cfg, pidx, caps[t], port.srst_value).free
    IN  IF cfg.rd_ports[pidx].emu_sync THEN <<cfg>>
        ELSE Flatten([t \in 1..Len(caps) |->
                LET try == rst_try(cfg, pidx, caps[t], port.srst_value)
                IN  IF caps[t].val.kind # "Sync" THEN <<>>
                    ELSE IF ~try.ok THEN <<>>
                    ELSE IF port.en = "1" THEN <<try.cfg>>
                    ELSE srst_mode_clones(try.cfg, pidx)])
             \o (IF ~found_free
                 THEN <<[cfg EXCEPT !.rd_ports[pidx].emu_srst = TRUE]>>
                 ELSE <<>>)

\* The tests that skip a read port in the three phases, negated.
rd_init_relevant(pidx) ==
    LET port == mem.rd_ports[pidx]
    IN  port.clk_enable /\ ~is_fully_undef(port.init_value)
rd_arst_relevant(pidx) ==
    LET port == mem.rd_ports[pidx]
    IN  port.clk_enable /\ port.arst # "0" /\ ~is_fully_undef(port.arst_value)
rd_srst_relevant(pidx) ==
    LET port == mem.rd_ports[pidx]
    IN  port.clk_enable /\ port.srst # "0" /\ ~is_fully_undef(port.srst_value)

RECURSIVE handle_rd_init_from(_, _)
handle_rd_init_from(cs, pidx) ==
    IF pidx > Len(mem.rd_ports) THEN cs
    ELSE IF ~rd_init_relevant(pidx) THEN handle_rd_init_from(cs, pidx + 1)
    ELSE handle_rd_init_from(
            Flatten([c \in 1..Len(cs) |->
                rst_clones(cs[c], pidx, "Init", mem.rd_ports[pidx].init_value)]),
            pidx + 1)

handle_rd_init(cs) == handle_rd_init_from(cs, 1)

RECURSIVE handle_rd_arst_from(_, _)
handle_rd_arst_from(cs, pidx) ==
    IF pidx > Len(mem.rd_ports) THEN cs
    ELSE IF ~rd_arst_relevant(pidx) THEN handle_rd_arst_from(cs, pidx + 1)
    ELSE handle_rd_arst_from(
            Flatten([c \in 1..Len(cs) |->
                rst_clones(cs[c], pidx, "Async", mem.rd_ports[pidx].arst_value)]),
            pidx + 1)

handle_rd_arst(cs) == handle_rd_arst_from(cs, 1)

RECURSIVE handle_rd_srst_from(_, _)
handle_rd_srst_from(cs, pidx) ==
    IF pidx > Len(mem.rd_ports) THEN cs
    ELSE IF ~rd_srst_relevant(pidx) THEN handle_rd_srst_from(cs, pidx + 1)
    ELSE handle_rd_srst_from(
            Flatten([c \in 1..Len(cs) |-> srst_clones(cs[c], pidx)]), pidx + 1)

handle_rd_srst(cs) == handle_rd_srst_from(cs, 1)

RECURSIVE handle_rd_init_steps(_, _)
\* The runs of the loop body of handle_rd_init: the candidate it was given,
\* the read port, and the candidates it pushed.
handle_rd_init_steps(cs, pidx) ==
    IF pidx > Len(mem.rd_ports) THEN {}
    ELSE IF ~rd_init_relevant(pidx) THEN handle_rd_init_steps(cs, pidx + 1)
    ELSE LET val == mem.rd_ports[pidx].init_value
         IN  {[phase |-> "handle_rd_init", cfg |-> cs[c], rpidx |-> pidx, wpidx |-> 0,
               out |-> rst_clones(cs[c], pidx, "Init", val)] : c \in 1..Len(cs)}
             \cup handle_rd_init_steps(
                    Flatten([c \in 1..Len(cs) |-> rst_clones(cs[c], pidx, "Init", val)]),
                    pidx + 1)

RECURSIVE handle_rd_arst_steps(_, _)
\* The same for handle_rd_arst.
handle_rd_arst_steps(cs, pidx) ==
    IF pidx > Len(mem.rd_ports) THEN {}
    ELSE IF ~rd_arst_relevant(pidx) THEN handle_rd_arst_steps(cs, pidx + 1)
    ELSE LET val == mem.rd_ports[pidx].arst_value
         IN  {[phase |-> "handle_rd_arst", cfg |-> cs[c], rpidx |-> pidx, wpidx |-> 0,
               out |-> rst_clones(cs[c], pidx, "Async", val)] : c \in 1..Len(cs)}
             \cup handle_rd_arst_steps(
                    Flatten([c \in 1..Len(cs) |-> rst_clones(cs[c], pidx, "Async", val)]),
                    pidx + 1)

RECURSIVE handle_rd_srst_steps(_, _)
\* The same for handle_rd_srst.
handle_rd_srst_steps(cs, pidx) ==
    IF pidx > Len(mem.rd_ports) THEN {}
    ELSE IF ~rd_srst_relevant(pidx) THEN handle_rd_srst_steps(cs, pidx + 1)
    ELSE {[phase |-> "handle_rd_srst", cfg |-> cs[c], rpidx |-> pidx, wpidx |-> 0,
           out |-> srst_clones(cs[c], pidx)] : c \in 1..Len(cs)}
         \cup handle_rd_srst_steps(
                Flatten([c \in 1..Len(cs) |-> srst_clones(cs[c], pidx)]), pidx + 1)

----------------------------------------------------------------------------
(* Libraries the mapping is run on.  Each is a value the parser produces   *)
(* for the library text quoted with it: port groups carry their default    *)
(* clock and width, sync read groups declare rden, and a clock tag is used *)
(* with anyedge only or with posedge/negedge only.                         *)

C0(v) == Cap(v, NoOpts, NoOpts)

\* ram block $BR { dims 10 16;
\*   port sr "R" { clock anyedge "C"; rden any; }
\*   port sw "W" { clock anyedge "C"; } }
RamS1 ==
    RamDef("$BR", "Block",
        <<C0([PortGroupDef("Sr", <<"R">>) EXCEPT
                !.clock = <<C0(ClockDef("Anyedge", "C"))>>,
                !.rden = <<C0("Any")>>]),
          C0([PortGroupDef("Sw", <<"W">>) EXCEPT
                !.clock = <<C0(ClockDef("Anyedge", "C"))>>])>>,
        <<>>, <<>>)

\* ram block $PN { dims 10 16;
\*   port sw "W1" "W2" { clock posedge "P"; clock negedge "P"; }
\*   port sr "R" { clock posedge "P"; rden none; portoption "EN" 1 { rden any; } } }
RamPN ==
    RamDef("$PN", "Block",
        <<C0([PortGroupDef("Sw", <<"W1", "W2">>) EXCEPT
                !.clock = <<C0(ClockDef("Posedge", "P")), C0(ClockDef("Negedge", "P"))>>]),
          C0([PortGroupDef("Sr", <<"R">>) EXCEPT
                !.clock = <<C0(ClockDef("Posedge", "P"))>>,
                !.rden = <<C0("None"), Cap("Any", NoOpts, Opt("EN", 1))>>])>>,
        <<>>, <<>>)

\* ram distributed $LUT { dims 10 16; init any; style "M";
\*   option "MODE" 1 { port arsw "A" "B" { } }
\*   option "MODE" 2 { port ar "RA" { } }
\*   port ar "RB" { } }
RamLUT ==
    RamDef("$LUT", "Distributed",
        <<Cap([PortGroupDef("Arsw", <<"A", "B">>) EXCEPT
                !.clock = <<Cap(ClockDef("Anyedge", ""), Opt("MODE", 1), NoOpts)>>,
                !.width = <<Cap(1, Opt("MODE", 1), NoOpts)>>],
              Opt("MODE", 1), NoOpts),
          Cap([PortGroupDef("Ar", <<"RA">>) EXCEPT
                !.width = <<Cap(1, Opt("MODE", 2), NoOpts)>>],
              Opt("MODE", 2), NoOpts),
          C0(PortGroupDef("Ar", <<"RB">>))>>,
        <<C0("Any")>>, <<C0("M")>>)

\* ram block $TDP { dims 10 16; init zero; option "INIT" 1 { init any; }
\*   style "M"; option "STY" 1 { style "N"; }
\*   port srsw "A" "B" { clock posedge;
\*     rden any; portoption "RDEN" 1 { rden write-implies; }
\*     portoption "RDEN" 2 { rden write-excludes; }
\*     rdinitval zero; rdarstval "V"; rdsrstval "V";
\*     portoption "SRMODE" 0 { rdsrstmode en-over-srst; }
\*     portoption "SRMODE" 1 { rdsrstmode srst-over-en; }
\*     portoption "TR" 1 { wrtrans self new; } wrtrans other old;
\*     option "PRIO" 1 { wrprio "A"; } } }
RamTDP ==
    RamDef("$TDP", "Block",
        <<C0([PortGroupDef("Srsw", <<"A", "B">>) EXCEPT
                !.clock = <<C0(ClockDef("Posedge", ""))>>,
                !.rden = <<C0("Any"),
                           Cap("WriteImplies", NoOpts, Opt("RDEN", 1)),
                           Cap("WriteExcludes", NoOpts, Opt("RDEN", 2))>>,
                !.rdrstval = <<C0(ResetValDef("Init", "Zero", "")),
                               C0(ResetValDef("Async", "Named", "V")),
                               C0(ResetValDef("Sync", "Named", "V"))>>,
                !.rdsrstmode = <<Cap("EnOverSrst", NoOpts, Opt("SRMODE", 0)),
                                 Cap("SrstOverEn", NoOpts, Opt("SRMODE", 1))>>,
                !.wrtrans = <<Cap(WrTransDef("Self", "", "New"), NoOpts, Opt("TR", 1)),
                              C0(WrTransDef("Other", "", "Old"))>>,
                !.wrprio = <<Cap("A", Opt("PRIO", 1), NoOpts)>>])>>,
        <<C0("Zero"), Cap("Any", Opt("INIT", 1), NoOpts)>>,
        <<C0("M"), Cap("N", Opt("STY", 1), NoOpts)>>)

\* ram block $RST { dims 10 16;
\*   port sw "W" { }
\*   port sr "R" { rden any; rdinitval "V"; rdarstval "V"; rdsrstval zero;
\*     portoption "SRV" 1 { rdsrstval "V"; } } }
RamRST ==
    RamDef("$RST", "Block",
        <<C0(PortGroupDef("Sw", <<"W">>)),
          C0([PortGroupDef("Sr", <<"R">>) EXCEPT
                !.rden = <<C0("Any")>>,
                !.rdrstval = <<C0(ResetValDef("Init", "Named", "V")),
                               C0(ResetValDef("Async", "Named", "V")),
                               C0(ResetValDef("Sync", "Zero", "")),
                               Cap(ResetValDef("Sync", "Named", "V"), NoOpts, Opt("SRV", 1))>>])>>,
        <<>>, <<>>)

\* ram block $PRIO { dims 10 16;
\*   port sw "A" { }
\*   port sw "B" { wrprio "A"; portoption "PR" 1 { wrprio "R"; } }
\*   port sr "R" { rden any; } }
RamPRIO ==
    RamDef("$PRIO", "Block",
        <<C0(PortGroupDef("Sw", <<"A">>)),
          C0([PortGroupDef("Sw", <<"B">>) EXCEPT
                !.wrprio = <<C0("A"), Cap("R", NoOpts, Opt("PR", 1))>>]),
          C0([PortGroupDef("Sr", <<"R">>) EXCEPT !.rden = <<C0("Any")>>])>>,
        <<>>, <<>>)

\* ram block $TR { dims 10 16;
\*   port sw "W" { wrtrans "R" new;
\*     portoption "TR" 1 { wrtrans "R" old; wrtrans "Q" new; }
\*     portoption "TR" 0 { wrtrans "Q" old; } }
\*   port sr "R" { rden any; }
\*   port sr "Q" { rden any; } }
RamTR ==
    RamDef("$TR", "Block",
        <<C0([PortGroupDef("Sw", <<"W">>) EXCEPT
                !.wrtrans = <<C0(WrTransDef("Named", "R", "New")),
                              Cap(WrTransDef("Named", "R", "Old"), NoOpts, Opt("TR", 1)),
                              Cap(WrTransDef("Named", "Q", "New"), NoOpts, Opt("TR", 1)),
                              Cap(WrTransDef("Named", "Q", "Old"), NoOpts, Opt("TR", 0))>>]),
          C0([PortGroupDef("Sr", <<"R">>) EXCEPT !.rden = <<C0("Any")>>]),
          C0([PortGroupDef("Sr", <<"Q">>) EXCEPT !.rden = <<C0("Any")>>])>>,
        <<>>, <<>>)

\* ram block $EN { dims 10 16;
\*   port srsw "A" { rden none; portoption "E" 1 { rden any; } } }
RamEN ==
    RamDef("$EN", "Block",
        <<C0([PortGroupDef("Srsw", <<"A">>) EXCEPT
                !.rden = <<C0("None"), Cap("Any", NoOpts, Opt("E", 1))>>])>>,
        <<>>, <<>>)

\* ram block $RV { dims 10 16;
\*   port sr "R" { rden any; rdinitval none; portoption "Z" 1 { rdinitval zero; }
\*     rdarstval none; rdsrstval none; }
\*   init none; }
RamRV ==
    RamDef("$RV", "Block",
        <<C0([PortGroupDef("Sr", <<"R">>) EXCEPT
                !.rden = <<C0("Any")>>,
                !.rdrstval = <<C0(ResetValDef("Init", "None", "")),
                               Cap(ResetValDef("Init", "Zero", ""), NoOpts, Opt("Z", 1)),
                               C0(ResetValDef("Async", "None", "")),
                               C0(ResetValDef("Sync", "None", ""))>>])>>,
        <<C0("None")>>, <<>>)

\* ram block $IS { dims 10 16; port sw "W" { } port sr "R" { rden any; }
\*   option "X" 0 { style "M"; } option "X" 1 { init any; } init zero; }
RamIS ==
    RamDef("$IS", "Block",
        <<C0(PortGroupDef("Sw", <<"W">>)),
          C0([PortGroupDef("Sr", <<"R">>) EXCEPT !.rden = <<C0("Any")>>])>>,
        <<Cap("Any", Opt("X", 1), NoOpts), C0("Zero")>>,
        <<Cap("M", Opt("X", 0), NoOpts)>>)

----------------------------------------------------------------------------
(* The memories the mapping is run on.                                     *)

\* Bounds of the memories.
MaxWrPorts == 2
MaxRdPorts == 2
MaxAttrs == 2

\* A write port, and a read port, with every field at its usual value: the
\* port is clocked by K1 (rising edge), a read port has no enable, no reset
\* and no init value, and its collisions are don't-care.
WrPort ==
    [clk_enable |-> TRUE, clk |-> "K1", clk_polarity |-> TRUE,
     priority_mask |-> <<>>, en |-> <<"p">>, addr |-> <<"a0", "a1">>, wide_log2 |-> 0]
RdPort ==
    [clk_enable |-> TRUE, clk |-> "K1", clk_polarity |-> TRUE, en |-> "1",
     transparency_mask |-> <<>>, collision_x_mask |-> <<>>,
     init_value |-> <<"x", "x">>,
     arst |-> "0", arst_value |-> <<"x", "x">>,
     srst |-> "0", srst_value |-> <<"x", "x">>,
     ce_over_srst |-> FALSE, addr |-> <<"a0", "a1">>, wide_log2 |-> 0]

\* The clocking of a port: asynchronous, or a clock and a polarity.
Clockings ==
    {[clk_enable |-> FALSE, clk |-> "0", clk_polarity |-> TRUE],
     [clk_enable |-> TRUE, clk |-> "K1", clk_polarity |-> TRUE],
     [clk_enable |-> TRUE, clk |-> "K1", clk_polarity |-> FALSE],
     [clk_enable |-> TRUE, clk |-> "K2", clk_polarity |-> TRUE]}

Clocked(port, c) ==
    [port EXCEPT !.clk_enable = c.clk_enable, !.clk = c.clk, !.clk_polarity = c.clk_polarity]

\* Mem with the given ports: the masks get one entry per write port.  prio
\* says that every write port has priority over the write ports before it;
\* tr[r] is the relation of read port r to the write ports: "x" (collisions
\* are don't-care), "new" (transparent) or "old".
MkMem(attrs, logic_block, inits, wrs, rds, prio, tr) ==
    [attributes |-> attrs, logic_block |-> logic_block, inits |-> inits,
     wr_ports |-> [w \in 1..Len(wrs) |->
        [wrs[w] EXCEPT !.priority_mask = [o \in 1..Len(wrs) |-> prio /\ o < w]]],
     rd_ports |-> [r \in 1..Len(rds) |->
        [rds[r] EXCEPT
            !.transparency_mask = [w \in 1..Len(wrs) |-> tr[r] = "new"],
            !.collision_x_mask = [w \in 1..Len(wrs) |-> tr[r] = "x"]]]]

AllX(n) == [r \in 1..n |-> "x"]

\* Memories that differ in the number of ports and in their clocking.
MemsClocking ==
    {MkMem(<<>>, FALSE, <<>>,
           [w \in 1..Len(wc) |-> Clocked(WrPort, wc[w])],
           [r \in 1..Len(rc) |-> Clocked(RdPort, rc[r])],
           FALSE, AllX(Len(rc))) :
        wc \in SeqsUpTo(Clockings, MaxWrPorts), rc \in SeqsUpTo(Clockings, MaxRdPorts)}

\* Memories on one clock that differ in the transparency and priority
\* relations of their ports and in the read enable.
MemsRelations ==
    {MkMem(<<>>, FALSE, <<>>,
           [w \in 1..nw |-> WrPort],
           [r \in 1..Len(tr) |-> [RdPort EXCEPT !.en = en]],
           prio, tr) :
        nw \in 1..MaxWrPorts, tr \in SeqsUpTo({"x", "new", "old"}, MaxRdPorts),
        prio \in BOOLEAN, en \in {"1", "q", "p|q", "!p"}}

\* The values of a reset or an init value.
RstValues == {<<"0", "0">>, <<"0", "1">>, <<"x", "0">>}

\* Memories on one clock that differ in the init values and resets of
\* their read ports: which of the three each port has (has), their value
\* (vals[r], one per port), the enable and its priority.
MemsResets ==
    {MkMem(<<>>, FALSE, <<>>,
           [w \in 1..nw |-> WrPort],
           [r \in 1..Len(vals) |->
                [RdPort EXCEPT
                    !.en = ec[1], !.ce_over_srst = ec[2],
                    !.init_value = IF "init" \in has THEN vals[r] ELSE @,
                    !.arst = IF "arst" \in has THEN "ar" ELSE @,
                    !.arst_value = IF "arst" \in has THEN vals[r] ELSE @,
                    !.srst = IF "srst" \in has THEN "sr" ELSE @,
                    !.srst_value = IF "srst" \in has THEN vals[r] ELSE @]],
           FALSE, AllX(Len(vals))) :
        nw \in 0..1, vals \in SeqsUpTo(RstValues, MaxRdPorts) \ {<<>>},
        has \in SUBSET {"init", "arst", "srst"},
        ec \in {<<"1", FALSE>>, <<"q", FALSE>>, <<"q", TRUE>>}}

\* One read port whose initial, async-reset and sync-reset values differ.
MemsResetsMixed ==
    {MkMem(<<>>, FALSE, <<>>, <<>>,
           <<[RdPort EXCEPT !.init_value = v1,
                            !.arst = "ar", !.arst_value = v2,
                            !.srst = IF v3 = AllX(2) THEN "0" ELSE "sr",
                            !.srst_value = v3]>>,
           FALSE, AllX(1)) :
        v1 \in RstValues, v2 \in RstValues, v3 \in RstValues \cup {AllX(2)}}

\* The attribute values tried.
AttrValues == {IntConst(1), StrConst("logic"), StrConst("block"), StrConst("M")}

\* The position of a style attribute in the list determine_style walks.
AttrPos(k) == CHOOSE i \in 1..Len(AttrOrder) : AttrOrder[i] = k

\* The attribute dicts with at most MaxAttrs of the style attributes.
AttrDicts ==
    UNION {[1..n -> {[key |-> k, val |-> v] : k \in Range(AttrOrder), v \in AttrValues}]
            : n \in 0..MaxAttrs}

\* Memories that differ in their attributes (entered into the dict in the
\* order opposite to the one determine_style walks), with a synchronous or
\* an asynchronous write port.
MemsAttrs ==
    {MkMem(attrs, lb, <<>>, <<Clocked(WrPort, wc)>>, <<RdPort>>, FALSE, <<"x">>) :
        attrs \in {a \in AttrDicts : \A i, j \in 1..Len(a) :
                    i < j => AttrPos(a[i].key) > AttrPos(a[j].key)},
        lb \in BOOLEAN,
        wc \in {c \in Clockings : c.clk = "K1" => c.clk_polarity}}

\* Memories that differ in their initializers.
MemsInits ==
    {MkMem(<<>>, FALSE, inits, <<WrPort>>, <<RdPort>>, FALSE, <<"x">>) :
        inits \in {<<<<"x", "x">>>>, <<<<"0", "0">>>>, <<<<"0", "1">>>>,
                   <<<<"x", "x">>, <<"x", "0">>>>}}

\* Memories on one clock that differ in the transparency of their ports.
MemsTrans ==
    {MkMem(<<>>, FALSE, <<>>, [w \in 1..nw |-> WrPort], [r \in 1..Len(tr) |-> RdPort],
           FALSE, tr) :
        nw \in 1..MaxWrPorts, tr \in SeqsUpTo({"x", "new", "old"}, MaxRdPorts)}

\* Memories with one write and one read port that differ in the read enable.
MemsEnable ==
    {MkMem(<<>>, FALSE, <<>>, <<WrPort>>, <<[RdPort EXCEPT !.en = en]>>, FALSE, <<"x">>) :
        en \in {"1", "q"}}

\* Memories with one style attribute that asks for a kind or names a style.
MemsStyles ==
    {MkMem(<<[key |-> "ram_style", val |-> StrConst(v)]>>, FALSE, <<>>,
           <<WrPort>>, <<RdPort>>, FALSE, <<"x">>) :
        v \in {"distributed", "block", "huge", "M", "N", "Q"}}

\* Memories with contents that name the style "M".
MemsInitStyle ==
    {MkMem(<<[key |-> "ram_style", val |-> StrConst("M")]>>, FALSE, inits,
           <<WrPort>>, <<RdPort>>, FALSE, <<"x">>) :
        inits \in {<<<<"0", "0">>>>, <<<<"0", "1">>>>}}

\* Read ports that differ in their address and in their width: the wire
\* a0m is a0 behind a mux with an undefined input, and a port with
\* wide_log2 = 1 has its lowest address bit tied to 0.
AddrPorts ==
    {[RdPort EXCEPT !.addr = ad.addr, !.wide_log2 = ad.wide_log2] :
        ad \in {[addr |-> <<"a0", "a1">>, wide_log2 |-> 0],
                [addr |-> <<"a0m", "a1">>, wide_log2 |-> 0],
                [addr |-> <<"0", "a1">>, wide_log2 |-> 1],
                [addr |-> <<"a0", "a1", "0">>, wide_log2 |-> 0],
                [addr |-> <<"a0", "a1", "a2">>, wide_log2 |-> 0],
                [addr |-> <<"a1", "a0">>, wide_log2 |-> 0]}}

\* Memories on one clock that differ in the addresses of their read ports.
MemsAddrs ==
    {MkMem(<<>>, FALSE, <<>>, wrs, rds, FALSE, AllX(Len(rds))) :
        wrs \in {<<WrPort>>, <<WrPort, WrPort>>},
        rds \in {<<a>> : a \in AddrPorts} \cup (AddrPorts \X AddrPorts)}

\* Memories whose one read port has an enable or not, an init value and
\* both resets, and any clocking.
MemsEmuSync ==
    {MkMem(<<>>, FALSE, <<>>, wrs,
           <<Clocked([RdPort EXCEPT !.en = en,
                                    !.init_value = <<"0", "1">>,
                                    !.arst = "ar", !.arst_value = <<"0", "1">>,
                                    !.srst = "sr", !.srst_value = <<"0", "1">>], c)>>,
           FALSE, <<"x">>) :
        wrs \in {<<>>, <<WrPort>>}, en \in {"1", "q"}, c \in Clockings}

\* The (library, memory) pairs the mapping is run on.
Runs ==
    ({<<RamS1>>, <<RamPN>>, <<RamLUT, RamS1>>, <<RamTDP>>} \X MemsClocking)
    \cup ({<<RamTDP>>, <<RamPRIO>>} \X MemsRelations)
    \cup ({<<RamTR>>, <<RamS1>>} \X MemsTrans)
    \cup ({<<RamEN>>} \X MemsEnable)
    \cup ({<<RamRST>>, <<RamTDP>>} \X MemsResets)
    \cup ({<<RamRST>>, <<RamRV>>} \X MemsResetsMixed)
    \cup ({<<RamLUT, RamS1>>} \X MemsAttrs)
    \cup ({<<RamLUT, RamTDP>>, <<RamS1, RamLUT, RamTDP>>} \X MemsStyles)
    \cup ({<<RamLUT, RamTDP>>, <<RamRV, RamS1, RamTDP>>} \X MemsInits)
    \cup ({<<RamIS>>} \X MemsInitStyle)
    \cup ({<<RamLUT>>, <<RamTDP>>} \X MemsAddrs)
    \cup ({<<RamLUT, RamRV>>, <<RamLUT, RamTDP>>} \X MemsEmuSync)

----------------------------------------------------------------------------
(* The MemMapping constructor as a state machine: one action per call it   *)
(* makes, in the order it makes them.                                      *)

ParserIdle == [state |-> "idle"]
NoCall == [fn |-> "none"]

Init ==
    /\ \E run \in Runs : lib = run[1] /\ mem = run[2]
    /\ cfgs = <<>>
    /\ kind = "Auto"
    /\ style = ""
    /\ logic_ok = FALSE
    /\ pc = "determine_style"
    /\ prio_trace = {}
    /\ steps = {}
    /\ call = NoCall
    /\ parser = ParserIdle

DetermineStyle ==
    /\ pc = "determine_style"
    /\ kind' = determine_style.kind
    /\ style' = determine_style.style
    /\ pc' = "determine_logic_ok"
    /\ UNCHANGED <<lib, mem, cfgs, logic_ok, prio_trace, steps, call, parser>>

\* logic_ok = determine_logic_ok(); if (kind == RamKind::Logic) return;
DetermineLogicOk ==
    /\ pc = "determine_logic_ok"
    /\ logic_ok' = determine_logic_ok
    /\ pc' = IF kind = "Logic" THEN "done" ELSE "init_cfgs"
    /\ UNCHANGED <<lib, mem, cfgs, kind, style, prio_trace, steps, call, parser>>

\* The loop of the constructor that makes one candidate per RAM definition.
InitCfgs ==
    /\ pc = "init_cfgs"
    /\ cfgs' = [i \in 1..Len(lib) |-> MemConfig(i)]
    /\ pc' = "handle_ram_kind"
    /\ UNCHANGED <<lib, mem, kind, style, logic_ok, prio_trace, steps, call, parser>>

\* handle_ram_kind, with its log_error when no candidate is left.
HandleRamKind ==
    /\ pc = "handle_ram_kind"
    /\ cfgs' = handle_ram_kind(cfgs)
    /\ pc' = IF kind \notin {"Auto", "NotLogic"} /\ handle_ram_kind(cfgs) = <<>>
             THEN "fatal" ELSE "handle_ram_style"
    /\ UNCHANGED <<lib, mem, kind, style, logic_ok, prio_trace, steps, call, parser>>

\* handle_ram_style, with its log_error when no candidate is left.
HandleRamStyle ==
    /\ pc = "handle_ram_style"
    /\ cfgs' = handle_ram_style(cfgs)
    /\ pc' = IF style # "" /\ handle_ram_style(cfgs) = <<>>
             THEN "fatal" ELSE "handle_init"
    /\ UNCHANGED <<lib, mem, kind, style, logic_ok, prio_trace, steps, call, parser>>

HandleInit ==
    /\ pc = "handle_init"
    /\ cfgs' = handle_init(cfgs)
    /\ pc' = "handle_wr_ports"
    /\ UNCHANGED <<lib, mem, kind, style, logic_ok, prio_trace, steps, call, parser>>

HandleWrPorts ==
    /\ pc = "handle_wr_ports"
    /\ cfgs' = handle_wr_ports(cfgs)
    /\ pc' = "handle_rd_ports"
    /\ UNCHANGED <<lib, mem, kind, style, logic_ok, prio_trace, steps, call, parser>>

HandleRdPorts ==
    /\ pc = "handle_rd_ports"
    /\ cfgs' = handle_rd_ports(cfgs)
    /\ steps' = handle_rd_ports_steps(cfgs, 1)
    /\ pc' = "handle_trans"
    /\ UNCHANGED <<lib, mem, kind, style, logic_ok, prio_trace, call, parser>>

HandleTrans ==
    /\ pc = "handle_trans"
    /\ cfgs' = handle_trans(cfgs)
    /\ steps' = handle_trans_steps(cfgs, 1, 1)
    /\ pc' = "handle_priority"
    /\ UNCHANGED <<lib, mem, kind, style, logic_ok, prio_trace, call, parser>>

\* What a read outside cfg.rd_ports can give: a crash, or some name.
UBOutcomes ==
    {"crash", "<garbage>"}
    \cup UNION {{lib[r].ports[g].val.names[1] : g \in 1..Len(lib[r].ports)}
                    : r \in 1..Len(lib)}

HandlePriority ==
    /\ pc = "handle_priority"
    /\ \E ub \in {"<in range>"} \cup UBOutcomes :
        LET st == handle_priority(cfgs, ub)
            oob == \E e \in st.trace : e.oob
        IN  /\ oob <=> (ub # "<in range>")
            /\ prio_trace' = st.trace
            /\ IF ub = "crash"
               THEN cfgs' = cfgs /\ steps' = {} /\ pc' = "crashed"
               ELSE cfgs' = st.cfgs /\ steps' = st.steps /\ pc' = "handle_rd_init"
    /\ UNCHANGED <<lib, mem, kind, style, logic_ok, call, parser>>

HandleRdInit ==
    /\ pc = "handle_rd_init"
    /\ cfgs' = handle_rd_init(cfgs)
    /\ steps' = handle_rd_init_steps(cfgs, 1)
    /\ pc' = "handle_rd_arst"
    /\ UNCHANGED <<lib, mem, kind, style, logic_ok, prio_trace, call, parser>>

HandleRdArst ==
    /\ pc = "handle_rd_arst"
    /\ cfgs' = handle_rd_arst(cfgs)
    /\ steps' = handle_rd_arst_steps(cfgs, 1)
    /\ pc' = "handle_rd_srst"
    /\ UNCHANGED <<lib, mem, kind, style, logic_ok, prio_trace, call, parser>>

\* handle_rd_srst, then the debug listing and handle_dims (which is empty).
HandleRdSrst ==
    /\ pc = "handle_rd_srst"
    /\ cfgs' = handle_rd_srst(cfgs)
    /\ steps' = handle_rd_srst_steps(cfgs, 1)
    /\ pc' = "done"
    /\ UNCHANGED <<lib, mem, kind, style, logic_ok, prio_trace, call, parser>>

Next ==
    \/ DetermineStyle
    \/ DetermineLogicOk
    \/ InitCfgs
    \/ HandleRamKind
    \/ HandleRamStyle
    \/ HandleInit
    \/ HandleWrPorts
    \/ HandleRdPorts
    \/ HandleTrans
    \/ HandlePriority
    \/ HandleRdInit
    \/ HandleRdArst
    \/ HandleRdSrst

Spec == Init /\ [][Next]_vars

----------------------------------------------------------------------------
(* Properties of the candidates.                                           *)

Cfgs == {cfgs[c] : c \in 1..Len(cfgs)}
Uses(cfg, capname) ==
    {cfg.caps_used[i] : i \in {j \in 1..Len(cfg.caps_used) : cfg.caps_used[j].cap = capname}}
MemPort(u) == IF u.ptype = "wr" THEN mem.wr_ports[u.pidx] ELSE mem.rd_ports[u.pidx]
\* The polarity flag a clock capability stores for the port it is bound to.
StoredFlag(u) ==
    IF u.val.kind = "Anyedge" THEN MemPort(u).clk_polarity
    ELSE MemPort(u).clk_polarity # (u.val.kind = "Posedge")
AfterWrPorts ==
    pc \in {"handle_rd_ports", "handle_trans", "handle_priority", "handle_rd_init",
            "handle_rd_arst", "handle_rd_srst", "done", "crashed"}
AfterRdPorts == AfterWrPorts /\ pc # "handle_rd_ports"
HasAsyncWrPort == \E w \in 1..Len(mem.wr_ports) : ~mem.wr_ports[w].clk_enable

\* C1: in every candidate of every phase, all ports bound through a clock
\* capability with the same tag have the same clock signal and the same
\* stored polarity flag (clk_polarity for anyedge, clk_polarity XOR
\* (kind = posedge) otherwise), and that pair is the tag's binding in the
\* candidate's clock map.
C1_OneClockBinding ==
    \A cfg \in Cfgs : \A u1 \in Uses(cfg, "clock") :
        u1.val.name # "" =>
            /\ \A u2 \in Uses(cfg, "clock") :
                  u2.val.name = u1.val.name =>
                      /\ MemPort(u1).clk = MemPort(u2).clk
                      /\ StoredFlag(u1) = StoredFlag(u2)
            /\ LET d == IF u1.val.kind = "Anyedge" THEN cfg.clocks_anyedge
                        ELSE cfg.clocks_pnedge
               IN  /\ Find(d, u1.val.name) # 0
                   /\ d[Find(d, u1.val.name)].val = <<MemPort(u1).clk, StoredFlag(u1)>>

\* C1 witness: a final candidate binds one tag through a posedge and a
\* negedge capability on two ports.
C1_Witness ==
    /\ pc = "done"
    /\ \E cfg \in Cfgs : \E u1 \in Uses(cfg, "clock") : \E u2 \in Uses(cfg, "clock") :
          /\ u1.val.name # "" /\ u1.val.name = u2.val.name
          /\ u1.val.kind = "Posedge" /\ u2.val.kind = "Negedge"

NamedRst(cfg) == {u \in Uses(cfg, "rdrstval") : u.val.val_kind = "Named"}

\* C2 as stated: in every final candidate any two named rdrstval
\* capabilities with the same tag, on the same or on different read ports,
\* were matched against equal values.
C2_OneValuePerTag ==
    pc = "done" =>
        \A cfg \in Cfgs : \A u1 \in NamedRst(cfg) : \A u2 \in NamedRst(cfg) :
            u1.val.name = u2.val.name => u1.rv = u2.rv

\* C2 amended: in every final candidate any two named rdrstval capabilities
\* with the same tag used on the same read port were matched against equal
\* values, and that value is the tag's binding in the port's resetvals.
C2_OneValuePerTagAndPort ==
    pc = "done" =>
        \A cfg \in Cfgs : \A u1 \in NamedRst(cfg) :
            /\ \A u2 \in NamedRst(cfg) :
                  (u1.val.name = u2.val.name /\ u1.pidx = u2.pidx) => u1.rv = u2.rv
            /\ LET d == cfg.rd_ports[u1.pidx].resetvals
               IN  Find(d, u1.val.name) # 0 /\ d[Find(d, u1.val.name)].val = u1.rv

\* C2 witness: a final candidate used one tag for two kinds of reset on one
\* read port.
C2_Witness ==
    /\ pc = "done"
    /\ \E cfg \in Cfgs : \E u1 \in NamedRst(cfg) : \E u2 \in NamedRst(cfg) :
          /\ u1.val.name = u2.val.name /\ u1.pidx = u2.pidx
          /\ u1.val.kind # u2.val.kind

\* The ports of a candidate bound to group g: write ports, and read ports
\* that do not share with a write port.
WrBound(cfg, g) == {w \in 1..Len(cfg.wr_ports) : cfg.wr_ports[w].port_def = g}
RdUnshared(cfg, g) ==
    {r \in 1..Len(cfg.rd_ports) :
        cfg.rd_ports[r].port_def = g /\ cfg.rd_ports[r].wr_port = 0}
NamesOf(cfg, g) == Len(lib[cfg.ram_def].ports[g].val.names)

\* C3 as stated: after port binding the number of abstract ports bound to a
\* port group, a shared read port counted with its write port, is at most
\* the number of names of the group.
C3_GroupNotOverused ==
    AfterRdPorts =>
        \A cfg \in Cfgs : \A g \in 1..Len(lib[cfg.ram_def].ports) :
            Cardinality(WrBound(cfg, g)) + Cardinality(RdUnshared(cfg, g)) <= NamesOf(cfg, g)

\* C3 amended: after port binding the number of write ports bound to a port
\* group is at most the number of names of the group, and a read port that
\* does not share with a write port is bound to a group with fewer write
\* ports than names.
C3_WritePortsNotOverused ==
    AfterRdPorts =>
        \A cfg \in Cfgs : \A g \in 1..Len(lib[cfg.ram_def].ports) :
            /\ Cardinality(WrBound(cfg, g)) <= NamesOf(cfg, g)
            /\ RdUnshared(cfg, g) # {} => Cardinality(WrBound(cfg, g)) < NamesOf(cfg, g)

\* C3 witness: a final candidate of a memory with more write ports than a
\* write-capable group of its ram has names, that group being full.
C3_Witness ==
    /\ pc = "done"
    /\ \E cfg \in Cfgs : \E g \in 1..Len(lib[cfg.ram_def].ports) :
          /\ Cardinality(WrBound(cfg, g)) = NamesOf(cfg, g)
          /\ Len(cfg.wr_ports) > NamesOf(cfg, g)
          /\ cfg.rd_ports # <<>>

\* Every binding of src is in dst with an equal value.
Holds(dst, src) ==
    \A k \in 1..Len(src) : \E j \in 1..Len(dst) : dst[j] = src[k]
\* The portopts a capability used on a port is applied to.
PortOptsOf(cfg, u) ==
    IF u.ptype = "wr" THEN cfg.wr_ports[u.pidx].portopts
    ELSE IF cfg.rd_ports[u.pidx].wr_port # 0
    THEN cfg.wr_ports[cfg.rd_ports[u.pidx].wr_port].portopts
    ELSE cfg.rd_ports[u.pidx].portopts

\* C4: in every candidate of every phase, each capability the candidate
\* used has its opts in the candidate's opts and its portopts in the
\* portopts of the port it was applied to, with equal values; no key is
\* bound twice.
C4_OptionsApplied ==
    \A cfg \in Cfgs :
        /\ \A i \in 1..Len(cfg.caps_used) :
              LET u == cfg.caps_used[i]
              IN  /\ Holds(cfg.opts, u.opts)
                  /\ IF u.ptype = "ram" \/ u.cap = "ports" THEN u.portopts = NoOpts
                     ELSE Holds(PortOptsOf(cfg, u), u.portopts)
        /\ \A i \in 1..Len(cfg.opts) : \A j \in 1..Len(cfg.opts) :
              cfg.opts[i].key = cfg.opts[j].key => i = j

\* C4 witness: a final candidate used two capabilities that carry the same
\* option, and one that carries a port option.
C4_Witness ==
    /\ pc = "done"
    /\ \E cfg \in Cfgs : \E i \in 1..Len(cfg.caps_used) : \E j \in 1..Len(cfg.caps_used) :
          /\ i < j
          /\ cfg.caps_used[i].opts # NoOpts
          /\ cfg.caps_used[i].opts = cfg.caps_used[j].opts

\* C5 as stated: a phase after transparency handling that starts with a
\* non-empty candidate set ends with a non-empty candidate set.
C5_LatePhasesKeepCandidates ==
    [][(pc \in {"handle_priority", "handle_rd_init", "handle_rd_arst", "handle_rd_srst"}
        /\ cfgs # <<>>) => cfgs' # <<>>]_vars

\* C6 as stated: every lookup of the group of the first port of a priority
\* pair stays inside the candidate's port lists and gives the first name of
\* the group bound to write port p1.
C6_PriorityLookup ==
    \A t \in prio_trace : ~t.oob /\ t.name = t.wr_name

\* C8 as stated: logic_ok holds exactly when the kind is auto or logic and
\* the write ports, if any, share clock-enable, clock and polarity.
C8_LogicOkSameEnable ==
    pc \notin {"determine_style", "determine_logic_ok"} =>
        (logic_ok <=>
            /\ kind \in {"Auto", "Logic"}
            /\ \A p \in 1..Len(mem.wr_ports) : \A q \in 1..Len(mem.wr_ports) :
                  /\ mem.wr_ports[p].clk_enable = mem.wr_ports[q].clk_enable
                  /\ mem.wr_ports[p].clk = mem.wr_ports[q].clk
                  /\ mem.wr_ports[p].clk_polarity = mem.wr_ports[q].clk_polarity)

\* C8 amended: logic_ok holds exactly when the kind is auto or logic and
\* every write port is clocked, all on the same clock and polarity.
C8_LogicOkAllClocked ==
    pc \notin {"determine_style", "determine_logic_ok"} =>
        (logic_ok <=>
            /\ kind \in {"Auto", "Logic"}
            /\ \A p \in 1..Len(mem.wr_ports) : \A q \in 1..Len(mem.wr_ports) :
                  /\ mem.wr_ports[p].clk_enable
                  /\ mem.wr_ports[p].clk = mem.wr_ports[q].clk
                  /\ mem.wr_ports[p].clk_polarity = mem.wr_ports[q].clk_polarity)

\* C8 witness: logic_ok was determined true for a memory with two write
\* ports.
C8_Witness ==
    /\ pc = "init_cfgs"
    /\ logic_ok
    /\ Len(mem.wr_ports) = 2

\* C9: when the memory has an asynchronous write port, the candidate set
\* is empty from the end of write-port binding on, and logic_ok is false.
C9_AsyncWriteClears ==
    (HasAsyncWrPort /\ AfterWrPorts) => (cfgs = <<>> /\ ~logic_ok)

\* C9 witness: mapping ended for a memory whose second write port is
\* asynchronous and whose first is clocked.
C9_Witness ==
    /\ pc = "done"
    /\ Len(mem.wr_ports) = 2
    /\ mem.wr_ports[1].clk_enable
    /\ ~mem.wr_ports[2].clk_enable
    /\ cfgs = <<>>

PresentAttrs == {a \in 1..Len(AttrOrder) : has_attribute(AttrOrder[a])}

\* C10 as stated: a memory whose logic_block is set gets kind = logic.
C10_LogicBlockForcesLogic ==
    (pc # "determine_style" /\ mem.logic_block) => kind = "Logic"

\* C10 amended: the first attribute present, in the order of the list,
\* determines kind and style; a memory with none of them gets kind = logic
\* when logic_block is set and auto otherwise; with kind = logic the
\* candidate set stays empty.
C10_StyleDetermination ==
    pc # "determine_style" =>
        /\ IF PresentAttrs # {}
           THEN LET a == CHOOSE x \in PresentAttrs : \A y \in PresentAttrs : x <= y
                IN  [kind |-> kind, style |-> style] = style_of_attr(attribute_at(AttrOrder[a]))
           ELSE kind = (IF mem.logic_block THEN "Logic" ELSE "Auto") /\ style = ""
        /\ kind = "Logic" => cfgs = <<>>

\* C10 witness: a memory with logic_block and none of the attributes has
\* been given kind = logic.
C10_Witness ==
    /\ pc = "done"
    /\ mem.logic_block
    /\ PresentAttrs = {}
    /\ kind = "Logic"

----------------------------------------------------------------------------
(* Properties of the loop bodies of the per-port handlers.                 *)

\* The runs of the loop body of the handler named phase.
StepsOf(phase) == {s \in steps : s.phase = phase}
\* No key is bound to different values by dst and src.
Merges(dst, src) ==
    \A d \in Range(dst) : \A e \in Range(src) : d.key = e.key => d.val = e.val
\* cfg without its history.
Plain(cfg) == [cfg EXCEPT !.caps_used = <<>>]
\* The i-th smallest element of a set of numbers.
Nth(S, i) == CHOOSE t \in S : Cardinality({u \in S : u < t}) = i - 1
\* The wrtrans capabilities of the write port's group.
TransCaps(s) == lib[s.cfg.ram_def].ports[s.cfg.wr_ports[s.wpidx].port_def].val.wrtrans
\* Those whose target matches the read port and whose kind matches the pair.
TransMatching(s) ==
    LET cfg == s.cfg
        caps == TransCaps(s)
        rnames == lib[cfg.ram_def].ports[cfg.rd_ports[s.rpidx].port_def].val.names
        shared == cfg.rd_ports[s.rpidx].wr_port = s.wpidx
        transparent == mem.rd_ports[s.rpidx].transparency_mask[s.wpidx]
    IN  {t \in 1..Len(caps) :
            /\ \/ caps[t].val.target_kind = "Self" /\ shared
               \/ caps[t].val.target_kind = "Other" /\ ~shared
               \/ caps[t].val.target_kind = "Named" /\ rnames[1] = caps[t].val.target_name
            /\ caps[t].val.kind = IF transparent THEN "New" ELSE "Old"}
\* Those already in force in the candidate.
TransFree(s) ==
    {t \in TransMatching(s) :
        /\ Holds(s.cfg.opts, TransCaps(s)[t].opts)
        /\ Holds(s.cfg.wr_ports[s.wpidx].portopts, TransCaps(s)[t].portopts)}
\* Those whose options merge into the candidate's.
TransMerging(s) ==
    {t \in TransMatching(s) :
        /\ Merges(s.cfg.opts, TransCaps(s)[t].opts)
        /\ Merges(s.cfg.wr_ports[s.wpidx].portopts, TransCaps(s)[t].portopts)}
TransEmulated(s) ==
    mem.rd_ports[s.rpidx].transparency_mask[s.wpidx] /\ TransFree(s) = {}

\* C11: for a pair (r, w) that handle_trans does not skip and a candidate
\* whose r is not emu_sync, the candidates pushed are one clone per wrtrans
\* capability of w's group whose target matches r, whose kind is new for a
\* transparent and old for a non-transparent pair and whose options merge,
\* in the order of the capabilities, each the candidate with the
\* capability's options merged in; then, iff the pair is transparent and no
\* matching capability was already in force, the candidate with w appended
\* to r.emu_trans.
C11_TransparencyClones ==
    \A s \in StepsOf("handle_trans") :
        ~s.cfg.rd_ports[s.rpidx].emu_sync =>
            LET cfg == s.cfg
                w == s.wpidx
                n == Cardinality(TransMerging(s))
            IN  /\ Len(s.out) = n + (IF TransEmulated(s) THEN 1 ELSE 0)
                /\ \A i \in 1..n :
                    LET o == s.out[i]
                        t == TransCaps(s)[Nth(TransMerging(s), i)]
                    IN  /\ Range(o.opts) = Range(cfg.opts) \cup Range(t.opts)
                        /\ Range(o.wr_ports[w].portopts) =
                            Range(cfg.wr_ports[w].portopts) \cup Range(t.portopts)
                        /\ [Plain(o) EXCEPT !.opts = cfg.opts,
                                !.wr_ports[w].portopts = cfg.wr_ports[w].portopts]
                           = Plain(cfg)
                /\ TransEmulated(s) =>
                    Plain(s.out[n + 1]) =
                        Plain([cfg EXCEPT !.rd_ports[s.rpidx].emu_trans = Append(@, w)])

\* A transparent pair for which a capability gave a clone and the emulation
\* clone was pushed as well, and a non-transparent pair for which a
\* matching capability was dropped because its options conflict.
C11_Witness ==
    /\ \E s \in StepsOf("handle_trans") :
        /\ ~s.cfg.rd_ports[s.rpidx].emu_sync
        /\ TransEmulated(s)
        /\ Len(s.out) = 2
    /\ \E s \in StepsOf("handle_trans") :
        /\ ~s.cfg.rd_ports[s.rpidx].emu_sync
        /\ TransMatching(s) # {}
        /\ s.out = <<>>

\* The port group of the write port of a run, and its rden capabilities.
SharedDef(s) == lib[s.cfg.ram_def].ports[s.cfg.wr_ports[s.wpidx].port_def]
RdenCaps(s) == SharedDef(s).val.rden
\* The read port of the run can be the read side of its write port, which
\* is on an srsw group.
SharedSrsw(s) ==
    /\ SharedDef(s).val.kind = "Srsw"
    /\ s.cfg.wr_ports[s.wpidx].rd_port = 0
    /\ mem.rd_ports[s.rpidx].clk_enable
    /\ mem.rd_ports[s.rpidx].clk = mem.wr_ports[s.wpidx].clk
    /\ mem.rd_ports[s.rpidx].clk_polarity = mem.wr_ports[s.wpidx].clk_polarity
    /\ addr_compatible(s.wpidx, s.rpidx)
\* The rden capabilities C12 says give a clone.
RdenKept(s) ==
    {e \in 1..Len(RdenCaps(s)) :
        /\ Merges(s.cfg.opts, RdenCaps(s)[e].opts)
        /\ Merges(s.cfg.wr_ports[s.wpidx].portopts, RdenCaps(s)[e].portopts)
        /\ RdenCaps(s)[e].val = "WriteExcludes" => get_wr_excludes_rd(s.wpidx, s.rpidx)}
\* The emu_en C12 says the clone of a capability has.
RdenEmuEn(s, endef) ==
    CASE endef.val = "None" -> mem.rd_ports[s.rpidx].en # "1"
      [] endef.val = "Any" -> FALSE
      [] endef.val = "WriteImplies" -> ~get_wr_implies_rd(s.wpidx, s.rpidx)
      [] endef.val = "WriteExcludes" -> FALSE
\* The candidates of a sequence in which read port r is not shared.
UnsharedOf(cs, r) == SelectSeq(cs, LAMBDA o : o.rd_ports[r].wr_port = 0)

\* C12: when a synchronous read port r can be the read side of write port w
\* on an srsw group, the second pass pushes one clone per rden capability of
\* the group whose options merge, except a write-excludes capability when
\* the write does not exclude the read; the clone binds r to w and has
\* emu_en = (r.en is not constant 1) for none, false for any and for
\* write-excludes, and NOT wr_implies_rd(w, r) for write-implies.  Whatever
\* the second pass drops, the candidates of the first pass are all pushed.
C12_SharedReadEnable ==
    \A s \in StepsOf("handle_rd_ports") :
        /\ UnsharedOf(s.pushed, s.rpidx) = rd_port_unshared(s.cfg, s.rpidx)
        /\ SharedSrsw(s) =>
            LET cfg == s.cfg
                w == s.wpidx
                r == s.rpidx
                n == Cardinality(RdenKept(s))
            IN  /\ Len(s.out) = n
                /\ \A i \in 1..n :
                    LET o == s.out[i]
                        endef == RdenCaps(s)[Nth(RdenKept(s), i)]
                    IN  /\ Range(o.opts) = Range(cfg.opts) \cup Range(endef.opts)
                        /\ Range(o.wr_ports[w].portopts) =
                            Range(cfg.wr_ports[w].portopts) \cup Range(endef.portopts)
                        /\ o.wr_ports[w].rd_port = r
                        /\ Len(o.rd_ports) = r
                        /\ o.rd_ports[r].wr_port = w
                        /\ o.rd_ports[r].port_def = cfg.wr_ports[w].port_def
                        /\ o.rd_ports[r].emu_en = RdenEmuEn(s, endef)
                        /\ ~o.rd_ports[r].emu_sync
                        /\ [Plain(o) EXCEPT !.opts = cfg.opts, !.rd_ports = cfg.rd_ports,
                                !.wr_ports[w] = cfg.wr_ports[w]] = Plain(cfg)

\* A shared binding whose write-excludes capability was dropped while the
\* first pass gave a candidate, and one whose write-implies clone emulates
\* the enable.
C12_Witness ==
    /\ \E s \in StepsOf("handle_rd_ports") :
        /\ SharedSrsw(s)
        /\ \E e \in 1..Len(RdenCaps(s)) :
            RdenCaps(s)[e].val = "WriteExcludes" /\ e \notin RdenKept(s)
        /\ UnsharedOf(s.pushed, s.rpidx) # <<>>
    /\ \E s \in StepsOf("handle_rd_ports") :
        /\ SharedSrsw(s)
        /\ \E i \in 1..Len(s.out) :
            /\ s.out[i].rd_ports[s.rpidx].emu_en
            /\ \E u \in Uses(s.out[i], "rden") :
                u.pidx = s.rpidx /\ u.val = "WriteImplies"

\* The three reset-value phases: the scope of the capabilities each looks
\* at, the value it matches them against, and the emulation clone it pushes.
RstPhases == {"handle_rd_init", "handle_rd_arst", "handle_rd_srst"}
RstSteps == {s \in steps : s.phase \in RstPhases /\ ~s.cfg.rd_ports[s.rpidx].emu_sync}
RstScope(s) ==
    CASE s.phase = "handle_rd_init" -> "Init"
      [] s.phase = "handle_rd_arst" -> "Async"
      [] s.phase = "handle_rd_srst" -> "Sync"
RstValue(s) ==
    CASE s.phase = "handle_rd_init" -> mem.rd_ports[s.rpidx].init_value
      [] s.phase = "handle_rd_arst" -> mem.rd_ports[s.rpidx].arst_value
      [] s.phase = "handle_rd_srst" -> mem.rd_ports[s.rpidx].srst_value
RstEmulated(s) ==
    CASE s.phase = "handle_rd_init" -> [s.cfg EXCEPT !.rd_ports[s.rpidx].emu_init = TRUE]
      [] s.phase = "handle_rd_arst" -> [s.cfg EXCEPT !.rd_ports[s.rpidx].emu_arst = TRUE]
      [] s.phase = "handle_rd_srst" -> [s.cfg EXCEPT !.rd_ports[s.rpidx].emu_srst = TRUE]
RstCaps(s) == lib[s.cfg.ram_def].ports[s.cfg.rd_ports[s.rpidx].port_def].val.rdrstval
\* The capabilities of the scope that C13 says match the value.
RstMatching(s) ==
    {t \in 1..Len(RstCaps(s)) :
        /\ RstCaps(s)[t].val.kind = RstScope(s)
        /\ CASE RstCaps(s)[t].val.val_kind = "None" -> FALSE
             [] RstCaps(s)[t].val.val_kind = "Zero" -> "1" \notin Range(RstValue(s))
             [] RstCaps(s)[t].val.val_kind = "Named" ->
                    \A e \in Range(s.cfg.rd_ports[s.rpidx].resetvals) :
                        e.key = RstCaps(s)[t].val.name => e.val = RstValue(s)}
\* Those already in force in the candidate.
RstFree(s) ==
    {t \in RstMatching(s) :
        /\ Holds(s.cfg.opts, RstCaps(s)[t].opts)
        /\ Holds(PortOptsOf(s.cfg, [ptype |-> "rd", pidx |-> s.rpidx]),
                 RstCaps(s)[t].portopts)}
\* Those whose options merge into the candidate's.
RstMerging(s) ==
    {t \in RstMatching(s) :
        /\ Merges(s.cfg.opts, RstCaps(s)[t].opts)
        /\ Merges(PortOptsOf(s.cfg, [ptype |-> "rd", pidx |-> s.rpidx]),
                  RstCaps(s)[t].portopts)}
\* The positions in the pushed candidates of the emulation clone.
RstEmulations(s) ==
    {i \in 1..Len(s.out) : Plain(s.out[i]) = Plain(RstEmulated(s))}

\* C13: in handle_rd_init, handle_rd_arst and handle_rd_srst, for a
\* synchronous read port with a defined value and a candidate whose port is
\* not emu_sync: every pushed candidate other than the emulation clone used
\* an rdrstval capability of the phase's scope that is zero with a value
\* without a 1 bit, or named with a tag unbound or bound to that value (never
\* none); the emulation clone (emu_init / emu_arst / emu_srst set, nothing
\* else changed) is pushed, once and last, iff no such capability had its
\* options in force already; in the init and async phases every matching
\* capability whose options merge gives one candidate.  So a port none of
\* whose capabilities matches gives exactly the emulation clone.
C13_ResetValueMatching ==
    \A s \in RstSteps :
        LET n == Len(s.out)
            e == IF RstFree(s) = {} THEN 1 ELSE 0
        IN  /\ RstEmulations(s) = IF RstFree(s) = {} THEN {n} ELSE {}
            /\ n >= e
            /\ \A i \in 1..(n - e) :
                LET u == s.out[i].caps_used[Len(s.cfg.caps_used) + 1]
                IN  /\ u.cap = "rdrstval"
                    /\ u.pidx = s.rpidx
                    /\ u.rv = RstValue(s)
                    /\ \E t \in RstMatching(s) :
                        /\ RstCaps(s)[t].val = u.val
                        /\ RstCaps(s)[t].opts = u.opts
                        /\ RstCaps(s)[t].portopts = u.portopts
            /\ s.phase # "handle_rd_srst" => n = Cardinality(RstMerging(s)) + e
            /\ RstMatching(s) = {} => n = 1

\* A group offering only rdinitval zero and an init value with a 1 bit: the
\* one candidate pushed has emu_init set.
C13_Witness ==
    \E s \in RstSteps :
        /\ s.phase = "handle_rd_init"
        /\ "1" \in Range(RstValue(s))
        /\ \A t \in 1..Len(RstCaps(s)) :
            RstCaps(s)[t].val.kind = "Init" => RstCaps(s)[t].val.val_kind = "Zero"
        /\ \E t \in 1..Len(RstCaps(s)) : RstCaps(s)[t].val.kind = "Init"
        /\ Len(s.out) = 1
        /\ s.out[1].rd_ports[s.rpidx].emu_init

----------------------------------------------------------------------------
(* Scenario S1: the library of one block RAM with port sr "R" and port sw  *)
(* "W" on the anyedge clock "C", and a memory with one synchronous read    *)
(* and one synchronous write port on the same clock and polarity.          *)

S1Run ==
    /\ lib = <<RamS1>>
    /\ Len(mem.rd_ports) = 1
    /\ Len(mem.wr_ports) = 1
    /\ mem.rd_ports[1].clk_enable
    /\ mem.wr_ports[1].clk_enable
    /\ mem.rd_ports[1].clk = mem.wr_ports[1].clk
    /\ mem.rd_ports[1].clk_polarity = mem.wr_ports[1].clk_polarity
\* The memory has no style attribute and no contents, and its read port has
\* no init value and no reset.
S1Plain ==
    /\ mem.attributes = <<>>
    /\ ~mem.logic_block
    /\ \A i \in 1..Len(mem.inits) : is_fully_undef(mem.inits[i])
    /\ is_fully_undef(mem.rd_ports[1].init_value)
    /\ mem.rd_ports[1].arst = "0"
    /\ mem.rd_ports[1].srst = "0"
\* The outcome S1 expects.
S1Expected ==
    /\ Len(cfgs) = 1
    /\ LET cfg == cfgs[1]
           rp == cfg.rd_ports[1]
           wp == cfg.wr_ports[1]
       IN  /\ Range(cfg.clocks_anyedge) =
                {[key |-> "C",
                  val |-> <<mem.wr_ports[1].clk, mem.wr_ports[1].clk_polarity>>]}
           /\ rp.wr_port = 0
           /\ wp.rd_port = 0
           /\ lib[cfg.ram_def].ports[rp.port_def].val.names = <<"R">>
           /\ lib[cfg.ram_def].ports[wp.port_def].val.names = <<"W">>
           /\ ~rp.emu_sync /\ ~rp.emu_en /\ ~rp.emu_arst /\ ~rp.emu_srst
           /\ ~rp.emu_init /\ ~rp.emu_srst_en_prio
           /\ rp.emu_trans = <<>>
           /\ wp.emu_prio = <<>>

\* C14 as stated: in scenario S1 the mapping ends with exactly one
\* candidate, which binds "C" to the clock and its polarity, the read port
\* unshared to R and the write port to W, and sets no emulation flag and
\* leaves emu_trans and emu_prio empty.
C14_S1BindsDirectly ==
    (pc = "done" /\ S1Run) => S1Expected

\* C14 amended: the same, for a memory without style attribute, contents,
\* init value and resets whose read port has the write port in its
\* collision_x_mask.
C14_S1BindsDirectlyWhenCollisionX ==
    (pc = "done" /\ S1Run /\ S1Plain /\ mem.rd_ports[1].collision_x_mask[1])
        => S1Expected

C14_Witness ==
    /\ pc = "done"
    /\ S1Run
    /\ S1Plain
    /\ mem.rd_ports[1].collision_x_mask[1]
    /\ ~mem.rd_ports[1].clk_polarity
    /\ S1Expected

----------------------------------------------------------------------------
(* Properties of the filters on the RAM definitions.                       *)

\* The candidates of the RAM kind asked for.
KindKept == {c \in 1..Len(cfgs) : lib[cfgs[c].ram_def].kind = kind}
\* The (candidate, style capability) pairs of the style asked for whose
\* options merge.
StyleKept ==
    {p \in UNION {{<<c, d>> : d \in 1..Len(lib[cfgs[c].ram_def].style)} :
                    c \in 1..Len(cfgs)} :
        /\ lib[cfgs[p[1]].ram_def].style[p[2]].val = style
        /\ Merges(cfgs[p[1]].opts, lib[cfgs[p[1]].ram_def].style[p[2]].opts)}
\* The position of a pair among the pairs of S, candidates first.
PairRank(S, p) ==
    1 + Cardinality({q \in S : q[1] < p[1] \/ (q[1] = p[1] /\ q[2] < p[2])})

\* C17: when the kind asked for is distributed, block or huge,
\* handle_ram_kind leaves exactly the candidates whose RAM definition has
\* that kind, in their order; when a style is named, handle_ram_style leaves
\* one candidate per candidate and style capability of that name whose
\* options merge, with the options merged in.  The mapping ends in a fatal
\* error when a filter that was applied leaves no candidate, and in no
\* other step.
C17_KindAndStyleFilters ==
    [][/\ (pc = "handle_ram_kind" /\ kind \in {"Distributed", "Block", "Huge"}) =>
            /\ Len(cfgs') = Cardinality(KindKept)
            /\ \A j \in 1..Len(cfgs') : cfgs'[j] = cfgs[Nth(KindKept, j)]
            /\ (pc' = "fatal") <=> (cfgs' = <<>>)
       /\ (pc = "handle_ram_style" /\ style # "") =>
            /\ Len(cfgs') = Cardinality(StyleKept)
            /\ \A p \in StyleKept :
                LET o == cfgs'[PairRank(StyleKept, p)]
                    def == lib[cfgs[p[1]].ram_def].style[p[2]]
                IN  /\ Range(o.opts) = Range(cfgs[p[1]].opts) \cup Range(def.opts)
                    /\ [Plain(o) EXCEPT !.opts = cfgs[p[1]].opts] = Plain(cfgs[p[1]])
            /\ (pc' = "fatal") <=> (cfgs' = <<>>)
       /\ (pc' = "fatal") =>
            \/ pc = "handle_ram_kind" /\ kind \in {"Distributed", "Block", "Huge"}
            \/ pc = "handle_ram_style" /\ style # ""
      ]_vars

\* The mapping of a memory that asks for a block RAM from a library whose
\* first and third definitions are block RAMs came past both filters with
\* those two candidates.
C17_Witness ==
    /\ pc = "handle_init"
    /\ kind = "Block"
    /\ Len(lib) = 3
    /\ Len(cfgs) = 2
    /\ cfgs[1].ram_def = 1
    /\ cfgs[2].ram_def = 3

\* Some initializer of the memory has a defined bit, a 1 bit.
InitDefined == \E i \in 1..Len(mem.inits) : \E b \in Range(mem.inits[i]) : b # "x"
InitHasOne == \E i \in 1..Len(mem.inits) : "1" \in Range(mem.inits[i])
\* The (candidate, init capability) pairs C18 says give a clone.
InitKept ==
    {p \in UNION {{<<c, d>> : d \in 1..Len(lib[cfgs[c].ram_def].init)} :
                    c \in 1..Len(cfgs)} :
        /\ \/ lib[cfgs[p[1]].ram_def].init[p[2]].val = "Any"
           \/ lib[cfgs[p[1]].ram_def].init[p[2]].val = "Zero" /\ ~InitHasOne
        /\ Merges(cfgs[p[1]].opts, lib[cfgs[p[1]].ram_def].init[p[2]].opts)}

\* C18: handle_init leaves the candidates as they are when no initializer
\* of the memory has a defined bit; otherwise it leaves, in order, one clone
\* per candidate and init capability of its RAM definition that is any, or
\* zero when no initializer has a 1 bit, and whose options merge, with the
\* options merged in; so a candidate whose RAM definition has no init
\* capability, or none but init none, leaves nothing.
C18_InitFilter ==
    [][pc = "handle_init" =>
        IF ~InitDefined THEN cfgs' = cfgs
        ELSE /\ Len(cfgs') = Cardinality(InitKept)
             /\ \A p \in InitKept :
                 LET o == cfgs'[PairRank(InitKept, p)]
                     def == lib[cfgs[p[1]].ram_def].init[p[2]]
                 IN  /\ Range(o.opts) = Range(cfgs[p[1]].opts) \cup Range(def.opts)
                     /\ [Plain(o) EXCEPT !.opts = cfgs[p[1]].opts] = Plain(cfgs[p[1]])
      ]_vars

\* The candidates left for a memory with a 1 bit in its contents by a
\* library of a RAM with init none only, a RAM without init capability and
\* a RAM with init zero and, under an option, init any.
C18_Witness ==
    /\ pc = "handle_wr_ports"
    /\ InitHasOne
    /\ Len(lib) = 3
    /\ lib[1].init # <<>>
    /\ \A d \in 1..Len(lib[1].init) : lib[1].init[d].val = "None"
    /\ lib[2].init = <<>>
    /\ Len(cfgs) = 1
    /\ cfgs[1].ram_def = 3
    /\ cfgs[1].opts # <<>>

----------------------------------------------------------------------------
(* Properties of the port bindings of the candidates.                      *)

\* The group a port configuration is bound to.
GroupOf(cfg, pcfg) == lib[cfg.ram_def].ports[pcfg.port_def].val
\* Bit i of an address, counted from 1, 0 past its end, with a mux that has
\* an undefined input looked through.
AddrBit(addr, i) == IF i <= Len(addr) THEN sigmap_xmux(addr[i]) ELSE "0"
\* The addresses of write port w and read port r agree above the low bits
\* that the wider of the two ports does not decode.
SameAddress(w, r) ==
    \A i \in 1..(Len(mem.wr_ports[w].addr) + Len(mem.rd_ports[r].addr)) :
        i > Max(mem.wr_ports[w].wide_log2, mem.rd_ports[r].wide_log2)
            => AddrBit(mem.wr_ports[w].addr, i) = AddrBit(mem.rd_ports[r].addr, i)
\* The (write port, read port) pairs of a candidate that are marked shared
\* on either side.
SharedPairs(cfg) ==
    {p \in (1..Len(cfg.wr_ports)) \X (1..Len(cfg.rd_ports)) :
        cfg.wr_ports[p[1]].rd_port = p[2] \/ cfg.rd_ports[p[2]].wr_port = p[1]}

\* C21: in every candidate a write port is marked shared with at most one
\* read port and a read port with at most one write port, and the marks are
\* mutual; the two ports of a shared pair are bound to the same port group,
\* which is of kind arsw or srsw, their addresses are compatible, and for
\* srsw the read port is clocked by the clock and polarity of the write port.
C21_SharedPairs ==
    \A cfg \in Cfgs :
        /\ \A w \in 1..Len(cfg.wr_ports) : cfg.wr_ports[w].rd_port \in 0..Len(cfg.rd_ports)
        /\ \A r \in 1..Len(cfg.rd_ports) : cfg.rd_ports[r].wr_port \in 0..Len(cfg.wr_ports)
        /\ \A p, q \in SharedPairs(cfg) : (p[1] = q[1]) = (p[2] = q[2])
        /\ \A p \in SharedPairs(cfg) :
            /\ cfg.wr_ports[p[1]].rd_port = p[2]
            /\ cfg.rd_ports[p[2]].wr_port = p[1]
            /\ cfg.wr_ports[p[1]].port_def = cfg.rd_ports[p[2]].port_def
            /\ GroupOf(cfg, cfg.rd_ports[p[2]]).kind \in {"Arsw", "Srsw"}
            /\ SameAddress(p[1], p[2])
            /\ GroupOf(cfg, cfg.rd_ports[p[2]]).kind = "Srsw" =>
                /\ mem.rd_ports[p[2]].clk_enable
                /\ mem.rd_ports[p[2]].clk = mem.wr_ports[p[1]].clk
                /\ mem.rd_ports[p[2]].clk_polarity = mem.wr_ports[p[1]].clk_polarity

\* A candidate of a memory with two write and two read ports in which both
\* read ports, one wide and one behind a mux, are shared, each with its own
\* write port.
C21_Witness ==
    /\ Len(mem.wr_ports) = 2
    /\ Len(mem.rd_ports) = 2
    /\ mem.rd_ports[1].addr = <<"0", "a1">>
    /\ mem.rd_ports[2].addr = <<"a0m", "a1">>
    /\ \E cfg \in Cfgs :
        /\ Len(cfg.rd_ports) = 2
        /\ cfg.rd_ports[1].wr_port # 0
        /\ cfg.rd_ports[2].wr_port # 0
        /\ cfg.rd_ports[1].wr_port # cfg.rd_ports[2].wr_port


\* The kinds of the groups the write and the read ports may be bound to.
WrKinds == {"Sw", "Arsw", "Srsw"}
RdKinds == {"Ar", "Sr", "Arsw", "Srsw"}

\* C22: after handle_wr_ports and handle_rd_ports every candidate has one
\* WrPortConfig per write port of the memory and one RdPortConfig per read
\* port, every write port is bound to a group of kind sw, arsw or srsw,
\* every read port to a group of kind ar, sr, arsw or srsw, and every read
\* port without a clock, shared or not, to a group of kind ar or arsw.
C22_PortsBound ==
    \A cfg \in Cfgs :
        /\ AfterWrPorts =>
            /\ Len(cfg.wr_ports) = Len(mem.wr_ports)
            /\ \A w \in 1..Len(cfg.wr_ports) :
                /\ cfg.wr_ports[w].port_def \in 1..Len(lib[cfg.ram_def].ports)
                /\ GroupOf(cfg, cfg.wr_ports[w]).kind \in WrKinds
        /\ AfterRdPorts =>
            /\ Len(cfg.rd_ports) = Len(mem.rd_ports)
            /\ \A r \in 1..Len(cfg.rd_ports) :
                /\ cfg.rd_ports[r].port_def \in 1..Len(lib[cfg.ram_def].ports)
                /\ GroupOf(cfg, cfg.rd_ports[r]).kind \in RdKinds
                /\ ~mem.rd_ports[r].clk_enable =>
                    GroupOf(cfg, cfg.rd_ports[r]).kind \in {"Ar", "Arsw"}

\* A candidate, after the binding phases, of a memory with two read ports,
\* one without a clock and one with, on a library that has a sync group: the
\* async port is shared with the write port and the sync port is on its own.
C22_Witness ==
    /\ AfterRdPorts
    /\ Len(mem.wr_ports) = 1
    /\ Len(mem.rd_ports) = 2
    /\ ~mem.rd_ports[1].clk_enable
    /\ mem.rd_ports[2].clk_enable
    /\ \E d \in 1..Len(lib) : \E g \in Range(lib[d].ports) : g.val.kind = "Sr"
    /\ \E cfg \in Cfgs :
        /\ cfg.rd_ports[1].wr_port = 1
        /\ GroupOf(cfg, cfg.rd_ports[1]).kind = "Arsw"
        /\ cfg.rd_ports[2].wr_port = 0


\* The emulation flags of a read port configuration other than emu_sync.
OtherEmuFlags(pcfg) ==
    {pcfg.emu_en, pcfg.emu_arst, pcfg.emu_srst, pcfg.emu_init, pcfg.emu_srst_en_prio}

\* C23: in every candidate after handle_rd_ports, up to the last phase, the
\* emu_sync flag of a read port is set exactly when the port of the memory
\* has a clock and is bound, shared or not, to a group of kind ar or arsw;
\* and when emu_sync is set, emu_en, emu_arst, emu_srst, emu_init and
\* emu_srst_en_prio are all clear.
C23_EmuSync ==
    AfterRdPorts =>
        \A cfg \in Cfgs : \A r \in 1..Len(cfg.rd_ports) :
            /\ cfg.rd_ports[r].emu_sync =
                (/\ mem.rd_ports[r].clk_enable
                 /\ GroupOf(cfg, cfg.rd_ports[r]).kind \in {"Ar", "Arsw"})
            /\ cfg.rd_ports[r].emu_sync => OtherEmuFlags(cfg.rd_ports[r]) = {FALSE}

\* The final candidates of a memory whose sync read port has an enable, an
\* init value and both resets: one binds the port to an async group, with
\* emu_sync alone, and one to a sync group, with other emulation flags.
C23_Witness ==
    /\ pc = "done"
    /\ Len(mem.rd_ports) = 1
    /\ mem.rd_ports[1].clk_enable
    /\ mem.rd_ports[1].en # "1"
    /\ rd_init_relevant(1) /\ rd_arst_relevant(1) /\ rd_srst_relevant(1)
    /\ \E cfg \in Cfgs :
        /\ cfg.rd_ports[1].emu_sync
        /\ GroupOf(cfg, cfg.rd_ports[1]).kind = "Arsw"
    /\ \E cfg \in Cfgs :
        /\ ~cfg.rd_ports[1].emu_sync
        /\ TRUE \in OtherEmuFlags(cfg.rd_ports[1])

----------------------------------------------------------------------------
(* Properties of the clones of the transparency, priority and reset phases. *)

ClonePhases ==
    {"handle_trans", "handle_priority", "handle_rd_init", "handle_rd_arst", "handle_rd_srst"}
CloneSteps == {s \in steps : s.phase \in ClonePhases}
\* The mark the phase of a run puts on the candidate it emulates in.
Marked(s, o) ==
    CASE s.phase = "handle_trans" -> s.wpidx \in Range(o.rd_ports[s.rpidx].emu_trans)
      [] s.phase = "handle_priority" -> s.rpidx \in Range(o.wr_ports[s.wpidx].emu_prio)
      [] s.phase = "handle_rd_init" -> o.rd_ports[s.rpidx].emu_init
      [] s.phase = "handle_rd_arst" -> o.rd_ports[s.rpidx].emu_arst
      [] s.phase = "handle_rd_srst" -> o.rd_ports[s.rpidx].emu_srst
\* The history entries of the capabilities a pushed candidate was given by
\* the run that pushed it.
NewUses(s, o) == (Len(s.cfg.caps_used) + 1)..Len(o.caps_used)
\* The candidate was pushed for a capability.
FromCap(s, o) == NewUses(s, o) # {}
\* The option bindings of those capabilities (field opts or portopts).
Added(s, o, field) == UNION {Range(o.caps_used[u][field]) : u \in NewUses(s, o)}
\* The reset values their named values bind.
AddedRst(s, o) ==
    {[key |-> o.caps_used[u].val.name, val |-> o.caps_used[u].rv] :
        u \in {x \in NewUses(s, o) :
                 /\ o.caps_used[x].cap = "rdrstval"
                 /\ o.caps_used[x].val.val_kind = "Named"}}
\* The write and the read ports whose port options those capabilities set:
\* those of a read port shared with a write port go to the write port.
TargetWr(s, o) ==
    {o.caps_used[u].pidx : u \in {x \in NewUses(s, o) : o.caps_used[x].ptype = "wr"}}
    \cup ({s.cfg.rd_ports[o.caps_used[u].pidx].wr_port :
              u \in {x \in NewUses(s, o) : o.caps_used[x].ptype = "rd"}} \ {0})
TargetRd(s, o) ==
    {o.caps_used[u].pidx :
        u \in {x \in NewUses(s, o) :
                 /\ o.caps_used[x].ptype = "rd"
                 /\ s.cfg.rd_ports[o.caps_used[x].pidx].wr_port = 0}}

\* C24: in handle_trans, handle_priority, handle_rd_init, handle_rd_arst and
\* handle_rd_srst, a candidate pushed for a capability never has the mark of
\* the phase (the emu_trans entry, the emu_prio entry, emu_init, emu_arst,
\* emu_srst), which only the one candidate pushed for the emulation may
\* have; and every pushed candidate has, beyond the option, port-option and
\* reset-value bindings of the candidate it was cloned from, only those of
\* its own capabilities, on its own port, and the clock bindings of the
\* candidate it was cloned from: nothing of a sibling or of another parent.
C24_CloneDiscipline ==
    \A s \in CloneSteps :
        /\ ~Marked(s, s.cfg)
        /\ Cardinality({i \in 1..Len(s.out) : ~FromCap(s, s.out[i])}) <= 1
        /\ \A i \in 1..Len(s.out) :
            LET o == s.out[i]
                p == s.cfg
            IN  /\ FromCap(s, o) => ~Marked(s, o)
                /\ Range(o.opts) \subseteq Range(p.opts) \cup Added(s, o, "opts")
                /\ Len(o.wr_ports) = Len(p.wr_ports)
                /\ Len(o.rd_ports) = Len(p.rd_ports)
                /\ \A w \in 1..Len(p.wr_ports) :
                    Range(o.wr_ports[w].portopts) \subseteq
                        Range(p.wr_ports[w].portopts)
                        \cup (IF w \in TargetWr(s, o) THEN Added(s, o, "portopts") ELSE {})
                /\ \A r \in 1..Len(p.rd_ports) :
                    /\ Range(o.rd_ports[r].portopts) \subseteq
                        Range(p.rd_ports[r].portopts)
                        \cup (IF r \in TargetRd(s, o) THEN Added(s, o, "portopts") ELSE {})
                    /\ Range(o.rd_ports[r].resetvals) \subseteq
                        Range(p.rd_ports[r].resetvals)
                        \cup (IF r = s.rpidx THEN AddedRst(s, o) ELSE {})
                /\ o.clocks_anyedge = p.clocks_anyedge
                /\ o.clocks_pnedge = p.clocks_pnedge

\* After a phase in which one candidate gave a clone for a capability that
\* binds a port option and the marked emulation clone without that binding,
\* and one candidate gave two clones for capabilities of which only the
\* second binds a port option or a reset value.
C24_Witness ==
    /\ \E s \in CloneSteps : \E i, j \in 1..Len(s.out) :
        /\ FromCap(s, s.out[i])
        /\ ~FromCap(s, s.out[j])
        /\ Marked(s, s.out[j])
        /\ Added(s, s.out[i], "portopts") # {}
        /\ \A r \in TargetRd(s, s.out[i]) :
            Added(s, s.out[i], "portopts") \cap Range(s.out[j].rd_ports[r].portopts) = {}
        /\ \A w \in TargetWr(s, s.out[i]) :
            Added(s, s.out[i], "portopts") \cap Range(s.out[j].wr_ports[w].portopts) = {}
    /\ \E s \in CloneSteps : \E i, j \in 1..Len(s.out) :
        /\ i # j
        /\ FromCap(s, s.out[i])
        /\ FromCap(s, s.out[j])
        /\ Plain(s.out[i]) = Plain(s.cfg)
        /\ Plain(s.out[j]) # Plain(s.cfg)

----------------------------------------------------------------------------
(* The Parser.  The file is a sequence of lines, a line the sequence of    *)
(* its whitespace-separated words (what next_token returns), and a word a  *)
(* sequence of runs of characters in which ";" and "#" stand alone, so     *)
(* that the first and the last character of a word can be told.  The       *)
(* parser object is the record P; an operation gives the record after it.  *)
(* log_error ends the pass: once P.error is set nothing changes P.         *)

\* The value of e under the name x in F(x); e is evaluated once.
With(e, F(_)) == CHOOSE r \in {F(x) : x \in {e}} : TRUE

RECURSIVE TokText(_)
\* The std::string of a word or of a part of it.
TokText(chunks) ==
    IF chunks = <<>> THEN "" ELSE Head(chunks) \o TokText(Tail(chunks))

\* The for loop of peek_token over the words of one line: the words before
\* the first one that starts a comment, each giving its token, or its token
\* without the final ";" and then ";".  The tokens of a span of words are
\* those of its two halves, one after the other.
lex_line(words) ==
    LET comments == {i \in 1..Len(words) : words[i][1] = "#"}
        n == IF comments = {} THEN Len(words)
             ELSE (CHOOSE i \in comments : \A j \in comments : i <= j) - 1
        lex(i) ==
            IF words[i][Len(words[i])] = ";"
            THEN <<TokText(SubSeq(words[i], 1, Len(words[i]) - 1)), ";">>
            ELSE <<TokText(words[i])>>
        RECURSIVE span(_, _)
        span(lo, hi) ==
            IF lo > hi THEN <<>>
            ELSE IF lo = hi THEN lex(lo)
            ELSE span(lo, (lo + hi) \div 2) \o span((lo + hi) \div 2 + 1, hi)
    IN  span(1, n)

RECURSIVE read_lines(_)
\* The while (std::getline(infile, line)) loop of peek_token.
read_lines(P0) ==
    With(P0, LAMBDA P :
        IF P.lines = <<>> THEN [P EXCEPT !.eof = TRUE]
        ELSE With([P EXCEPT !.lines = Tail(@), !.line_number = @ + 1,
                            !.tokens = P.tokens \o lex_line(Head(P.lines))],
                  LAMBDA Q : IF Q.tokens # <<>> THEN Q ELSE read_lines(Q)))

\* The parser after peek_token: the next line with a token is loaded.
load(P0) ==
    With(P0, LAMBDA P :
        IF P.eof THEN P
        ELSE IF P.token_idx <= Len(P.tokens) THEN P
        ELSE read_lines([P EXCEPT !.tokens = <<>>, !.token_idx = 1]))

\* std::string peek_token()
peek_token(P0) ==
    With(load(P0), LAMBDA Q : IF Q.eof THEN "" ELSE Q.tokens[Q.token_idx])

\* The parser after get_token (whose result is peek_token(P0)).
Adv(P0) ==
    With(load(P0), LAMBDA Q : IF Q.eof THEN Q ELSE [Q EXCEPT !.token_idx = @ + 1])

\* log_error: the first one ends the pass.
Err(P0, msg) ==
    With(P0, LAMBDA P : IF P.error # "" THEN P ELSE [P EXCEPT !.error = msg])

\* The tokens by their characters: ids start with "$", integers are
\* decimal, string literals are quoted, names are identifiers.
MaxIfs == 2
RECURSIVE PathsUpTo(_)
PathsUpTo(n) ==
    IF n = 0 THEN {""}
    ELSE PathsUpTo(n - 1) \cup {x \o "t" : x \in PathsUpTo(n - 1)}
                         \cup {x \o "e" : x \in PathsUpTo(n - 1)}
LeafPaths == PathsUpTo(MaxIfs)
IdToks == {"$r" \o x : x \in LeafPaths}
IntToks == {"0", "1", "2", "10", "16"}
IntVal(tok) ==
    CASE tok = "0" -> 0 [] tok = "1" -> 1 [] tok = "2" -> 2
      [] tok = "10" -> 10 [] tok = "16" -> 16
StringBodies == {"W", "R", "C", "O"} \cup {"s" \o x : x \in LeafPaths}
StringToks == {"\"" \o b \o "\"" : b \in StringBodies}
\* token.substr(1, token.size()-2)
StringBody(tok) == CHOOSE b \in StringBodies : tok = "\"" \o b \o "\""
NameToks == {"A", "B"}

\* A token of one of the classes: the value get gives for it and the parser
\* after get_token, or log_error.
get_tok(P0, toks, val(_), msg) ==
    With(P0, LAMBDA P : With(peek_token(P), LAMBDA t :
        IF t \notin toks THEN [val |-> "", P |-> Err(Adv(P), msg)]
        ELSE [val |-> val(t), P |-> Adv(P)]))

\* get_id, get_name, get_string, get_int: the value and the parser after.
get_id(P) == get_tok(P, IdToks, LAMBDA t : t, "expected id string")
get_name(P) == get_tok(P, NameToks, LAMBDA t : t, "expected name")
get_string(P) == get_tok(P, StringToks, StringBody, "expected string")
get_int(P) == get_tok(P, IntToks, IntVal, "expected int")
peek_string(P) == peek_token(P) \in StringToks
peek_int(P) == peek_token(P) \in IntToks

get_semi(P0) ==
    With(P0, LAMBDA P :
        IF peek_token(P) # ";" THEN Err(Adv(P), "expected ;") ELSE Adv(P))

\* Const get_value(): Const(int); Const(std::string) is kept apart from the
\* integers by its quotes.
get_value(P0) ==
    With(P0, LAMBDA P :
        IF peek_string(P)
        THEN [val |-> peek_token(P), P |-> get_string(P).P]
        ELSE get_int(P))

\* bool enter_ifdef(bool polarity): the saved flag and the parser after.
enter_ifdef(P0, polarity) ==
    With(P0, LAMBDA P : With(get_name(P), LAMBDA n :
        [save |-> P.active,
         P |-> IF n.P.error # "" THEN n.P
               ELSE [n.P EXCEPT
                        !.defines_unused = @ \ {n.val},
                        !.active = IF n.val \in P.defines THEN polarity ELSE ~polarity]]))

\* void enter_else(bool save)
enter_else(P0, save) ==
    With(P0, LAMBDA P : [Adv(P) EXCEPT !.active = (~P.active) /\ save])

\* History: the active flag before and after one ifdef/ifndef item.
exit_ifdef(P0, save) ==
    With(P0, LAMBDA P :
        IF P.error # "" THEN P
        ELSE [P EXCEPT !.active = save,
                       !.ifdef_log = @ \cup {[before |-> save, after |-> save]}])

\* enter_option / enter_portoption on the stack named.
enter_opt(P0, stack) ==
    With(get_string(P0), LAMBDA n : With(get_value(n.P), LAMBDA v :
        IF v.P.error # "" THEN v.P
        ELSE [v.P EXCEPT ![stack] = Append(@, [key |-> n.val, val |-> v.val])]))
\* exit_option / exit_portoption
exit_opt(P0, stack) ==
    With(P0, LAMBDA P :
        IF P.error # "" THEN P
        ELSE [P EXCEPT ![stack] = SubSeq(@, 1, Len(@) - 1)])

enter_option(P) == enter_opt(P, "option_stack")
exit_option(P) == exit_opt(P, "option_stack")
enter_portoption(P) == enter_opt(P, "portoption_stack")
exit_portoption(P) == exit_opt(P, "portoption_stack")

RECURSIVE options_of(_, _)
\* get_options / get_portoptions: res[it.first] = it.second over the stack.
options_of(stack, res) ==
    IF stack = <<>> THEN res
    ELSE options_of(Tail(stack), DictSet(res, Head(stack).key, Head(stack).val))

get_options(P) == options_of(P.option_stack, NoOpts)
get_portoptions(P) == options_of(P.portoption_stack, NoOpts)

\* add_cap(caps, val): the capability list after.
add_cap(P, caps, val) ==
    IF P.active THEN Append(caps, Cap(val, get_options(P), get_portoptions(P)))
    ELSE caps

\* PortGroupDef() and RamDef() as default-constructed.
EmptyPort ==
    [kind |-> "", names |-> <<>>, clock |-> <<>>, width |-> <<>>,
     mixwidth |-> <<>>, addrce |-> <<>>, rden |-> <<>>, rdrstval |-> <<>>,
     rdsrstmode |-> <<>>, wrbe |-> <<>>, wrprio |-> <<>>, wrtrans |-> <<>>,
     wrcs |-> <<>>]
EmptyRam ==
    [id |-> "", kind |-> "", ports |-> <<>>, dims |-> <<>>, init |-> <<>>,
     style |-> <<>>]

\* add_cap(port.<field>, val) and add_cap(ram.<field>, val)
AddPortCap(P0, field, val) ==
    With(P0, LAMBDA P :
        IF P.error # "" THEN P ELSE [P EXCEPT !.port[field] = add_cap(P, @, val)])
AddRamCap(P0, field, val) ==
    With(P0, LAMBDA P :
        IF P.error # "" THEN P ELSE [P EXCEPT !.ram[field] = add_cap(P, @, val)])

RECURSIVE port_int_list(_, _)
\* do { add_cap(port.<field>, get_int()); } while (peek_int());
port_int_list(P0, field) ==
    With(get_int(P0), LAMBDA g : With(AddPortCap(g.P, field, g.val), LAMBDA Q :
        IF Q.error # "" THEN Q
        ELSE IF peek_int(Q) THEN port_int_list(Q, field) ELSE Q))

RECURSIVE port_string_list(_, _)
\* do { add_cap(port.<field>, get_string()); } while (peek_string());
port_string_list(P0, field) ==
    With(get_string(P0), LAMBDA g : With(AddPortCap(g.P, field, g.val), LAMBDA Q :
        IF Q.error # "" THEN Q
        ELSE IF peek_string(Q) THEN port_string_list(Q, field) ELSE Q))

RECURSIVE ram_string_list(_, _)
\* do { add_cap(ram.<field>, get_string()); } while (peek_string());
ram_string_list(P0, field) ==
    With(get_string(P0), LAMBDA g : With(AddRamCap(g.P, field, g.val), LAMBDA Q :
        IF Q.error # "" THEN Q
        ELSE IF peek_string(Q) THEN ram_string_list(Q, field) ELSE Q))

RECURSIVE port_names(_)
\* do { port.names.push_back(get_string()); } while (peek_string());
port_names(P0) ==
    With(get_string(P0), LAMBDA g :
        IF g.P.error # "" THEN g.P
        ELSE With([g.P EXCEPT !.port.names = Append(@, g.val)], LAMBDA Q :
                 IF peek_string(Q) THEN port_names(Q) ELSE Q))

\* The keyword tables of the items.
ClkPolOf(tok) ==
    CASE tok = "anyedge" -> "Anyedge" [] tok = "posedge" -> "Posedge"
      [] tok = "negedge" -> "Negedge"
RdEnOf(tok) ==
    CASE tok = "none" -> "None" [] tok = "any" -> "Any"
      [] tok = "write-implies" -> "WriteImplies"
      [] tok = "write-excludes" -> "WriteExcludes"
ResetKindOf(tok) ==
    CASE tok = "rdinitval" -> "Init" [] tok = "rdsrstval" -> "Sync"
      [] tok = "rdarstval" -> "Async"
SrstOf(tok) ==
    CASE tok = "en-over-srst" -> "EnOverSrst" [] tok = "srst-over-en" -> "SrstOverEn"
      [] tok = "any" -> "Any"
PortKindOf(tok) ==
    CASE tok = "ar" -> "Ar" [] tok = "sr" -> "Sr" [] tok = "sw" -> "Sw"
      [] tok = "arsw" -> "Arsw" [] tok = "srsw" -> "Srsw"
RamKindOf(tok) ==
    CASE tok = "distributed" -> "Distributed" [] tok = "block" -> "Block"
      [] tok = "huge" -> "Huge"
InitKindOf(tok) ==
    CASE tok = "zero" -> "Zero" [] tok = "any" -> "Any" [] tok = "none" -> "None"

\* log_error unless the port being parsed is of one of the kinds.
NeedKind(P0, kinds, msg) ==
    With(P0, LAMBDA P : IF P.port.kind \in kinds THEN P ELSE Err(P, msg))

\* The token is taken if it is one of toks, log_error otherwise; peek says
\* that the token is left in place when it is not one of them.
Keyword(P0, toks, peek, msg) ==
    With(P0, LAMBDA P :
        IF peek_token(P) \in toks THEN Adv(P)
        ELSE IF peek THEN Err(P, msg) ELSE Err(Adv(P), msg))

\* get_semi(); add_cap(port.<field>, val);
SemiPortCap(P0, field, val) ==
    With(get_semi(P0), LAMBDA Q : AddPortCap(Q, field, val))

\* The branches of parse_port_item for the capabilities; P0 is the parser
\* after the item's keyword token was taken.
port_clock(P0) ==
    With(NeedKind(P0, {"Sr", "Sw", "Arsw", "Srsw"}, "clock not allowed in async read port"),
         LAMBDA P : With(peek_token(P), LAMBDA k :
         With(Keyword(P, {"anyedge", "posedge", "negedge"}, TRUE,
                      "expected posedge, negedge, or anyedge"), LAMBDA Q1 :
         With(IF peek_string(Q1) THEN get_string(Q1) ELSE [val |-> "", P |-> Q1], LAMBDA n :
             IF n.P.error # "" THEN n.P
             ELSE SemiPortCap(n.P, "clock", ClockDef(ClkPolOf(k), n.val))))))

port_rden(P0) ==
    With(NeedKind(P0, {"Sr", "Srsw"}, "rden only allowed on sync read ports"),
         LAMBDA P : With(peek_token(P), LAMBDA t :
         With(Keyword(P, {"none", "any", "write-implies", "write-excludes"}, FALSE,
                      "expected none, any, write-implies, or write-excludes"), LAMBDA Q1 :
         With(IF t \in {"write-implies", "write-excludes"}
              THEN NeedKind(Q1, {"Srsw"}, "only makes sense for read+write ports")
              ELSE Q1, LAMBDA Q2 :
             IF Q2.error # "" THEN Q2 ELSE SemiPortCap(Q2, "rden", RdEnOf(t))))))

port_rdrstval(P0, token) ==
    With(NeedKind(P0, {"Sr", "Srsw"}, "only allowed on sync read ports"),
         LAMBDA P : With(peek_token(P), LAMBDA t :
         With(IF t \in {"none", "zero"} THEN [val |-> "", P |-> Adv(P)]
              ELSE get_string(P), LAMBDA n :
             IF n.P.error # "" THEN n.P
             ELSE SemiPortCap(n.P, "rdrstval",
                     ResetValDef(ResetKindOf(token),
                                 IF t = "none" THEN "None"
                                 ELSE IF t = "zero" THEN "Zero" ELSE "Named",
                                 n.val)))))

port_rdsrstmode(P0) ==
    With(NeedKind(P0, {"Sr", "Srsw"}, "rdsrstmode only allowed on sync read ports"),
         LAMBDA P : With(peek_token(P), LAMBDA t :
         With(Keyword(P, {"en-over-srst", "srst-over-en", "any"}, FALSE,
                      "expected en-over-srst, srst-over-en, or any"), LAMBDA Q1 :
             IF Q1.error # "" THEN Q1 ELSE SemiPortCap(Q1, "rdsrstmode", SrstOf(t)))))

\* wrbe and wrcs
port_wr_int(P0, field) ==
    With(NeedKind(P0, {"Sw", "Arsw", "Srsw"}, "only allowed on write ports"),
         LAMBDA P : With(get_int(P), LAMBDA g :
             get_semi(AddPortCap(g.P, field, g.val))))

port_wrprio(P0) ==
    With(NeedKind(P0, {"Sw", "Arsw", "Srsw"}, "wrprio only allowed on write ports"),
         LAMBDA P : IF P.error # "" THEN P ELSE get_semi(port_string_list(P, "wrprio")))

port_wrtrans(P0) ==
    With(NeedKind(P0, {"Sw", "Arsw", "Srsw"}, "wrtrans only allowed on write ports"),
         LAMBDA P : With(peek_token(P), LAMBDA t :
         With(IF t = "self"
              THEN [val |-> "",
                    P |-> Adv(NeedKind(P, {"Srsw"},
                              "wrtrans self only allowed on sync read + sync write ports"))]
              ELSE IF t = "other" THEN [val |-> "", P |-> Adv(P)]
              ELSE get_string(P), LAMBDA n :
         With(peek_token(n.P), LAMBDA k :
         With(Keyword(n.P, {"new", "old"}, FALSE, "expected new or old"), LAMBDA Q1 :
             IF Q1.error # "" THEN Q1
             ELSE SemiPortCap(Q1, "wrtrans",
                     WrTransDef(IF t = "self" THEN "Self"
                                ELSE IF t = "other" THEN "Other" ELSE "Named",
                                n.val, IF k = "new" THEN "New" ELSE "Old")))))))

RECURSIVE parse_port_item(_), parse_port_block(_), port_items(_)
RECURSIVE parse_ram_item(_), parse_ram_block(_), ram_items(_)
RECURSIVE parse_top_item(_), parse_top_block(_), top_items(_)

\* The ifdef/ifndef branch of the three parse_*_item: enter_ifdef, the
\* block, the else block if "else" follows, and active = save.
IfdefItem(P0, polarity, parse_block(_)) ==
    LET e == enter_ifdef(P0, polarity)
    IN  With(parse_block(e.P), LAMBDA b :
            IF b.error = "" /\ peek_token(b) = "else"
            THEN exit_ifdef(parse_block(enter_else(b, e.save)), e.save)
            ELSE exit_ifdef(b, e.save))

\* while (peek_token() != "}") parse_port_item(); get_token();
port_items(P0) ==
    With(P0, LAMBDA P :
        CASE P.error # "" -> P
          [] peek_token(P) = "}" -> Adv(P)
          [] OTHER -> port_items(parse_port_item(P)))

parse_port_block(P) ==
    CASE P.error # "" -> P
      [] peek_token(P) = "{" -> port_items(Adv(P))
      [] OTHER -> With(P, parse_port_item)

parse_port_item(P) ==
    LET token == peek_token(P)
        Q == Adv(P)
    IN  CASE P.error # "" -> P
          [] token \in {"ifdef", "ifndef"} -> IfdefItem(Q, token = "ifdef", parse_port_block)
          [] token = "option" -> exit_option(parse_port_block(enter_option(Q)))
          [] token = "portoption" -> exit_portoption(parse_port_block(enter_portoption(Q)))
          [] token = "clock" -> port_clock(Q)
          [] token = "width" -> get_semi(port_int_list(Q, "width"))
          [] token = "mixwidth" -> SemiPortCap(Q, "mixwidth", "{}")
          [] token = "addrce" -> SemiPortCap(Q, "addrce", "{}")
          [] token = "rden" -> port_rden(Q)
          [] token \in {"rdinitval", "rdsrstval", "rdarstval"} -> port_rdrstval(Q, token)
          [] token = "rdsrstmode" -> port_rdsrstmode(Q)
          [] token = "wrbe" -> port_wr_int(Q, "wrbe")
          [] token = "wrprio" -> port_wrprio(Q)
          [] token = "wrtrans" -> port_wrtrans(Q)
          [] token = "wrcs" -> port_wr_int(Q, "wrcs")
          [] token = "" -> Err(Q, "unexpected EOF while parsing port item")
          [] OTHER -> Err(Q, "unknown port-level item")

\* while (peek_token() != "}") parse_ram_item(); get_token();
ram_items(P0) ==
    With(P0, LAMBDA P :
        CASE P.error # "" -> P
          [] peek_token(P) = "}" -> Adv(P)
          [] OTHER -> ram_items(parse_ram_item(P)))

parse_ram_block(P) ==
    CASE P.error # "" -> P
      [] peek_token(P) = "{" -> ram_items(Adv(P))
      [] OTHER -> With(P, parse_ram_item)

\* The dims and init branches of parse_ram_item.
ram_dims(P0) ==
    With(get_int(P0), LAMBDA a : With(get_int(a.P), LAMBDA d :
        AddRamCap(get_semi(d.P), "dims", [abits |-> a.val, dbits |-> d.val])))

ram_init(P0) ==
    With(peek_token(P0), LAMBDA t :
    With(Keyword(P0, {"zero", "any", "none"}, FALSE, "expected zero, any, or none"),
         LAMBDA Q1 :
        IF Q1.error # "" THEN Q1 ELSE AddRamCap(get_semi(Q1), "init", InitKindOf(t))))

\* The defaults parse_ram_item adds to a port group: the clock unless the
\* kind is Ar, the width, and the test that a sync read port has a rden.
port_defaults_guess_rden(P0) ==
    With(P0, LAMBDA P :
    With(IF P.port.kind # "Ar" /\ P.port.clock = <<>>
         THEN AddPortCap(P, "clock", ClockDef("Anyedge", "")) ELSE P, LAMBDA Q4 :
        IF Q4.port.width = <<>> THEN AddPortCap(Q4, "width", 1) ELSE Q4))
port_defaults(P0) ==
    With(P0, LAMBDA P :
    With(IF P.port.kind # "Ar" /\ P.port.clock = <<>>
         THEN AddPortCap(P, "clock", ClockDef("Anyedge", "")) ELSE P, LAMBDA Q4 :
    With(IF Q4.port.width = <<>> THEN AddPortCap(Q4, "width", 1) ELSE Q4, LAMBDA Q5 :
        IF Q5.port.kind \in {"Sr", "Srsw"} /\ Q5.port.rden = <<>>
        THEN Err(Q5, "rden capability should be specified") ELSE Q5)))

\* The port branch of parse_ram_item: the group is kept, with its
\* defaults, when the parser is active after its block.
ram_port(P0) ==
    LET t == peek_token(P0)
        Q0 == Keyword([P0 EXCEPT !.port = EmptyPort], {"ar", "sr", "sw", "arsw", "srsw"},
                      FALSE, "expected ar, sr, sw, arsw, or srsw")
    IN  With(IF Q0.error # "" THEN Q0
             ELSE With(port_names([Q0 EXCEPT !.port.kind = PortKindOf(t)]),
                       parse_port_block),
             LAMBDA Q3 :
            IF Q3.error # "" \/ ~Q3.active THEN Q3
            ELSE With(port_defaults(Q3), LAMBDA Q6 : AddRamCap(Q6, "ports", Q6.port)))

parse_ram_item(P) ==
    LET token == peek_token(P)
        Q == Adv(P)
    IN  CASE P.error # "" -> P
          [] token \in {"ifdef", "ifndef"} -> IfdefItem(Q, token = "ifdef", parse_ram_block)
          [] token = "option" -> exit_option(parse_ram_block(enter_option(Q)))
          [] token = "dims" -> ram_dims(Q)
          [] token = "init" -> ram_init(Q)
          [] token = "style" -> get_semi(ram_string_list(Q, "style"))
          [] token = "port" -> ram_port(Q)
          [] token = "" -> Err(Q, "unexpected EOF while parsing ram item")
          [] OTHER -> Err(Q, "unknown ram-level item")

\* while (peek_token() != "}") parse_top_item(); get_token();
top_items(P0) ==
    With(P0, LAMBDA P :
        CASE P.error # "" -> P
          [] peek_token(P) = "}" -> Adv(P)
          [] OTHER -> top_items(parse_top_item(P)))

parse_top_block(P) ==
    CASE P.error # "" -> P
      [] peek_token(P) = "{" -> top_items(Adv(P))
      [] OTHER -> With(P, parse_top_item)

\* The names of the clocks of a ram that are anyedge (any = TRUE) or
\* posedge/negedge (any = FALSE).
ram_clock_names_first_group(ram, any) ==
    {ram.ports[1].val.clock[c].val.name :
        c \in {x \in 1..Len(ram.ports[1].val.clock) :
                  /\ ram.ports[1].val.clock[x].val.name # ""
                  /\ (ram.ports[1].val.clock[x].val.kind = "Anyedge") = any}}
ram_clock_names(ram, any) ==
    UNION {{ram.ports[g].val.clock[c].val.name :
               c \in {x \in 1..Len(ram.ports[g].val.clock) :
                         /\ ram.ports[g].val.clock[x].val.name # ""
                         /\ (ram.ports[g].val.clock[x].val.kind = "Anyedge") = any}} :
           g \in 1..Len(ram.ports)}

\* The ram branch of parse_top_item.
top_ram(P0) ==
    LET t == peek_token(P0)
        Q1 == Keyword([P0 EXCEPT !.ram = EmptyRam], {"distributed", "block", "huge"},
                      FALSE, "expected distributed, block, or huge")
    IN  With(get_id(Q1), LAMBDA i :
        With(IF i.P.error # "" THEN i.P
             ELSE parse_ram_block([i.P EXCEPT !.ram.kind = RamKindOf(t), !.ram.id = i.val]),
             LAMBDA Q3 :
            CASE Q3.error # "" \/ ~Q3.active -> Q3
              [] Q3.ram.dims = <<>> -> Err(Q3, "dims capability should be specified")
              [] Q3.ram.ports = <<>> ->
                   Err(Q3, "at least one port group should be specified")
              [] ram_clock_names(Q3.ram, TRUE) \cap ram_clock_names(Q3.ram, FALSE) # {} ->
                   Err(Q3, "named clock used with both posedge/negedge and anyedge clocks")
              [] OTHER -> [Q3 EXCEPT !.ram_defs = Append(@, Q3.ram)]))

parse_top_item(P) ==
    LET token == peek_token(P)
        Q == Adv(P)
    IN  CASE P.error # "" -> P
          [] token \in {"ifdef", "ifndef"} -> IfdefItem(Q, token = "ifdef", parse_top_block)
          [] token = "ram" -> top_ram(Q)
          [] token = "" -> Err(Q, "unexpected EOF while parsing top item")
          [] OTHER -> Err(Q, "unknown top-level item")

----------------------------------------------------------------------------
(* Library files.  A file is one nest of ifdef/ifndef items, with or       *)
(* without else, around leaves: at the top level a leaf is a ram, in a ram *)
(* block a style, in a port block a wrprio.  A leaf is named by the path   *)
(* of branches ("t", "e") leading to it.                                   *)

Leaf(path) == [t |-> "leaf", path |-> path]
NoElse == [t |-> "none"]
IfItem(pol, name, th, el) ==
    [t |-> "if", pol |-> pol, name |-> name, th |-> th, el |-> el]

RECURSIVE Nests(_, _)
\* The nests with exactly k ifdef/ifndef items below the path.
Nests(k, path) ==
    IF k = 0 THEN {Leaf(path)}
    ELSE UNION {
           {IfItem(pol, n, th, NoElse) :
               pol \in {"ifdef", "ifndef"}, n \in NameToks,
               th \in Nests(k - 1, path \o "t")}
           } \cup
         UNION {
           {IfItem(pol, n, th, el) :
               pol \in {"ifdef", "ifndef"}, n \in NameToks,
               th \in Nests(a, path \o "t"), el \in Nests(k - 1 - a, path \o "e")}
           : a \in 0..(k - 1)}

W(x) == <<x>>
Semi(x) == <<x, ";">>
Quoted(x) == "\"" \o x \o "\""

RamHead(id) ==
    <<W("ram"), W("block"), W(id), W("{"), W("dims"), W("10"), Semi("16"),
      W("port"), W("sw"), W(Quoted("W")), W("{")>>

LeafWords(level, path) ==
    CASE level = "top" -> RamHead("$r" \o path) \o <<W("}"), W("}")>>
      [] level = "ram" -> <<W("style"), Semi(Quoted("s" \o path))>>
      [] level = "port" -> <<W("wrprio"), Semi(Quoted("s" \o path))>>

RECURSIVE Render(_, _, _)
\* The words of a nest; a block is braced when braces is set, and where an
\* else would otherwise attach to an inner item.
Render(node, level, braces) ==
    IF node.t = "leaf" THEN LeafWords(level, node.path)
    ELSE LET Block(n, must) ==
                 IF braces \/ (must /\ n.t = "if")
                 THEN <<W("{")>> \o Render(n, level, braces) \o <<W("}")>>
                 ELSE Render(n, level, braces)
         IN  <<W(node.pol), W(node.name)>> \o Block(node.th, node.el.t # "none")
             \o (IF node.el.t = "none" THEN <<>>
                 ELSE <<W("else")>> \o Block(node.el, FALSE))

\* The words of a clock capability of a port group of a definition input;
\* a hidden one is inside an ifdef of a name that is not defined.
ClockWords(c) ==
    (IF c.hidden THEN <<W("ifdef"), W("B")>> ELSE <<>>)
    \o <<W("clock")>>
    \o (IF c.tag = "" THEN <<Semi(c.pol)>> ELSE <<W(c.pol), Semi(Quoted(c.tag))>>)

\* The words of a port group of a definition input.
GroupWords(g) ==
    <<W("port"), W(g.kind), W(Quoted(IF g.kind = "sw" THEN "W" ELSE "R")), W("{")>>
    \o Flatten([c \in 1..Len(g.clks) |-> ClockWords(g.clks[c])])
    \o (CASE g.rden = "any" -> <<W("rden"), Semi("any")>>
           [] g.rden = "hidden" -> <<W("ifdef"), W("B"), W("rden"), Semi("any")>>
           [] OTHER -> <<>>)
    \o <<W("}")>>

\* The words of a definition input: one RAM definition, inside an ifdef of a
\* name that is not defined when wrap is set.
DefWords(in) ==
    (IF in.wrap THEN <<W("ifdef"), W("A"), W("{")>> ELSE <<>>)
    \o <<W("ram"), W("block"), W("$r"), W("{")>>
    \o (IF in.dims THEN <<W("dims"), W("10"), Semi("16")>> ELSE <<>>)
    \o Flatten([g \in 1..Len(in.groups) |-> GroupWords(in.groups[g])])
    \o <<W("}")>>
    \o (IF in.wrap THEN <<W("}")>> ELSE <<>>)

\* The last word of a statement of a terminator input and its ";": one
\* word, or two when the statement is among the detached ones.
SemiEnd(in, stmt, x) == IF stmt \in in.detached THEN <<W(x), W(";")>> ELSE <<Semi(x)>>

\* The words of a RAM definition of a terminator input.
SemiRamWords(in, id) ==
    <<W("ram"), W("block"), W(id), W("{"), W("dims"), W("10")>>
    \o SemiEnd(in, "dims", "16")
    \o <<W("init")>> \o SemiEnd(in, "init", "any")
    \o <<W("style")>> \o SemiEnd(in, "style", Quoted("O"))
    \o <<W("port"), W("sw"), W(Quoted("W")), W("{"), W("clock"), W("posedge")>>
    \o SemiEnd(in, "clock", Quoted("C"))
    \o <<W("}"), W("}")>>

\* The words of a terminator input: one RAM definition or two, with a ";"
\* of its own after the first when stray is set.
SemiWords(in) ==
    SemiRamWords(in, "$r")
    \o (IF in.stray THEN <<W(";")>> ELSE <<>>)
    \o (IF in.second THEN SemiRamWords(in, "$rt") ELSE <<>>)

\* The lines of the file of an input.
FileLines(in) ==
    << <<<<"#", "library">>>>, <<>>,
       CASE in.level = "def" -> DefWords(in)
         [] in.level = "semi" -> SemiWords(in)
         [] in.level = "top" -> Render(in.nest, "top", in.braces)
         [] in.level = "ram" ->
              RamHead("$r") \o <<W("}")>> \o Render(in.nest, "ram", in.braces)
              \o <<W("}")>>
         [] in.level = "port" ->
              RamHead("$r") \o Render(in.nest, "port", in.braces)
              \o <<W("}"), W("}")>> >>

RECURSIVE Selected(_, _)
\* The leaves of a nest every enclosing condition of which selects their
\* branch under the defines.
Selected(node, defines) ==
    IF node.t = "none" THEN {}
    ELSE IF node.t = "leaf" THEN {node.path}
    ELSE IF (node.name \in defines) = (node.pol = "ifdef")
    THEN Selected(node.th, defines)
    ELSE Selected(node.el, defines)

Inputs ==
    [level : {"top", "ram", "port"},
     nest : UNION {Nests(k, "") : k \in 0..MaxIfs},
     braces : BOOLEAN,
     defines : SUBSET NameToks]

\* Parser(filename, lib) with Library(defines), before parse().
NewParser(in) ==
    [state |-> "parsing", input |-> in, lines |-> FileLines(in),
     line_number |-> 0, tokens |-> <<>>, token_idx |-> 1, eof |-> FALSE,
     option_stack |-> <<>>, portoption_stack |-> <<>>,
     ram |-> EmptyRam, port |-> EmptyPort, active |-> TRUE,
     ram_defs |-> <<>>, defines |-> in.defines, defines_unused |-> in.defines,
     warnings |-> {}, error |-> "", ifdef_log |-> {}]

ParseInit ==
    /\ \E in \in Inputs : parser = NewParser(in)
    /\ lib = <<>>
    /\ mem = <<>>
    /\ cfgs = <<>>
    /\ kind = "Auto"
    /\ style = ""
    /\ logic_ok = FALSE
    /\ pc = "parse"
    /\ prio_trace = {}
    /\ steps = {}
    /\ call = NoCall

\* One turn of the loop of parse(): while (peek_token() != "") parse_top_item();
ParseTopItem ==
    /\ parser.state = "parsing"
    /\ peek_token(parser) # ""
    /\ parser' = With(parse_top_item(parser), LAMBDA R :
                      IF R.error # ""
                      THEN [state |-> "fatal", input |-> parser.input, error |-> R.error]
                      ELSE R)
    /\ UNCHANGED <<lib, mem, cfgs, kind, style, logic_ok, pc, prio_trace, steps, call>>

\* The loop of parse() ends and the file is closed.
ParseEnd ==
    /\ parser.state = "parsing"
    /\ peek_token(parser) = ""
    /\ parser' = [load(parser) EXCEPT !.state = "parsed"]
    /\ UNCHANGED <<lib, mem, cfgs, kind, style, logic_ok, pc, prio_trace, steps, call>>

\* Library::prepare()
LibraryPrepare ==
    /\ parser.state = "parsed"
    /\ parser' = [parser EXCEPT !.state = "prepared",
                                !.warnings = {"define " \o d \o " not used in the library." :
                                                 d \in parser.defines_unused}]
    /\ UNCHANGED <<lib, mem, cfgs, kind, style, logic_ok, pc, prio_trace, steps, call>>

ParseNext ==
    \/ ParseTopItem
    \/ ParseEnd
    \/ LibraryPrepare

ParseSpec == ParseInit /\ [][ParseNext]_vars

----------------------------------------------------------------------------
(* Properties of the parser.                                               *)

\* The leaves the library holds once the file is parsed, by their paths.
RecordedLeaves ==
    CASE parser.input.level = "top" ->
           {x \in LeafPaths :
               \E i \in 1..Len(parser.ram_defs) : parser.ram_defs[i].id = "$r" \o x}
      [] parser.input.level = "ram" ->
           {x \in LeafPaths :
               \E i \in 1..Len(parser.ram_defs) :
                   \E j \in 1..Len(parser.ram_defs[i].style) :
                       parser.ram_defs[i].style[j].val = "s" \o x}
      [] parser.input.level = "port" ->
           {x \in LeafPaths :
               \E i \in 1..Len(parser.ram_defs) :
                   \E g \in 1..Len(parser.ram_defs[i].ports) :
                       \E j \in 1..Len(parser.ram_defs[i].ports[g].val.wrprio) :
                           parser.ram_defs[i].ports[g].val.wrprio[j].val = "s" \o x}

\* C7 as stated: once the file is parsed, the library holds an item only if
\* every ifdef/ifndef branch around it is selected by the defines, and the
\* active flag after each ifdef/ifndef item was its value before the item.
C7_OnlySelectedItemsRecorded ==
    parser.state \in {"parsed", "prepared"} =>
        /\ RecordedLeaves \subseteq Selected(parser.input.nest, parser.input.defines)
        /\ \A e \in parser.ifdef_log : e.after = e.before

----------------------------------------------------------------------------
(* apply_opts on its own: option maps over two keys are merged, in any     *)
(* order and any number of times up to MaxCalls, into a map that starts    *)
(* as any such map.                                                        *)

\* The number of calls made on one map.
MaxCalls == 2
OptKeys == {"K", "L"}
OptVals == {0, 1}
\* The dicts over OptKeys, in every insertion order.
OptMaps ==
    {d \in SeqsUpTo([key : OptKeys, val : OptVals], Cardinality(OptKeys)) :
        \A i, j \in 1..Len(d) : i # j => d[i].key # d[j].key}

OptsInit ==
    /\ call \in [fn : {"apply_opts"}, a : OptMaps, b : OptMaps, dst : OptMaps, log : {<<>>}]
    /\ lib = <<>>
    /\ mem = <<>>
    /\ cfgs = <<>>
    /\ kind = "Auto"
    /\ style = ""
    /\ logic_ok = FALSE
    /\ pc = "call"
    /\ prio_trace = {}
    /\ steps = {}
    /\ parser = ParserIdle

\* apply_opts(dst, src) with src one of the two maps.
ApplyOpts ==
    /\ pc = "call"
    /\ call.fn = "apply_opts"
    /\ Len(call.log) < MaxCalls
    /\ \E src \in {call.a, call.b} :
        LET r == apply_opts(call.dst, src)
        IN  call' = [call EXCEPT
                        !.dst = r.dst,
                        !.log = Append(@, [src |-> src, before |-> call.dst,
                                           ok |-> r.ok, after |-> r.dst])]
    /\ UNCHANGED <<lib, mem, cfgs, kind, style, logic_ok, pc, prio_trace, steps, parser>>

OptsSpec == OptsInit /\ [][ApplyOpts]_vars

\* The log of the calls made so far.
OptsLog == IF call.fn = "apply_opts" THEN call.log ELSE <<>>

\* C15: apply_opts fails exactly when some key of src is bound in dst to a
\* different value; failing or not it leaves every binding dst had, and
\* binds no key twice; when it succeeds dst holds its old bindings and those
\* of src and no other.  Applying the same src again gives the same result
\* and the same map.  Two maps without conflicting key applied to the empty
\* map both succeed and leave the union of their bindings, whichever is
\* applied first.
C15_ApplyOptsAlgebra ==
    \A i \in 1..Len(OptsLog) :
        LET e == OptsLog[i]
        IN  /\ e.ok <=> Merges(e.before, e.src)
            /\ Range(e.before) \subseteq Range(e.after)
            /\ \A j, k \in 1..Len(e.after) : j # k => e.after[j].key # e.after[k].key
            /\ e.ok => Range(e.after) = Range(e.before) \cup Range(e.src)
            /\ (i > 1 /\ OptsLog[i - 1].src = e.src) =>
                    /\ e.ok = OptsLog[i - 1].ok
                    /\ e.after = OptsLog[i - 1].after
            /\ (i = 2 /\ OptsLog[1].before = <<>> /\ Merges(OptsLog[1].src, e.src)) =>
                    /\ OptsLog[1].ok
                    /\ e.ok
                    /\ Range(e.after) = Range(OptsLog[1].src) \cup Range(e.src)

\* Two different maps that agree on a key they share, merged into the empty
\* map one after the other.
C15_Witness ==
    /\ Len(OptsLog) = 2
    /\ OptsLog[1].before = <<>>
    /\ Range(OptsLog[1].src) # Range(OptsLog[2].src)
    /\ Range(OptsLog[1].src) \cap Range(OptsLog[2].src) # {}
    /\ Merges(OptsLog[1].src, OptsLog[2].src)
    /\ OptsLog[2].ok
    /\ Len(OptsLog[2].after) = 2

----------------------------------------------------------------------------
(* The two enable queries on their own: one write port and one read port   *)
(* whose enables are any of the signals of the module.                     *)

\* The width of the write enable.
MaxEnBits == 2
EnBits == {"0", "1", "p", "q", "p|q", "p&q", "!p"}
MemsQueries ==
    {MkMem(<<>>, FALSE, <<>>, <<[WrPort EXCEPT !.en = wen]>>,
           <<[RdPort EXCEPT !.en = ren]>>, FALSE, <<"x">>) :
        wen \in SeqsUpTo(EnBits, MaxEnBits) \ {<<>>}, ren \in EnBits}

QueryInit ==
    /\ mem \in MemsQueries
    /\ call = [fn |-> "query", asked |-> {}, implies |-> FALSE, excludes |-> FALSE]
    /\ lib = <<>>
    /\ cfgs = <<>>
    /\ kind = "Auto"
    /\ style = ""
    /\ logic_ok = FALSE
    /\ pc = "call"
    /\ prio_trace = {}
    /\ steps = {}
    /\ parser = ParserIdle

GetWrImpliesRd ==
    /\ pc = "call"
    /\ call.fn = "query"
    /\ "implies" \notin call.asked
    /\ call' = [call EXCEPT !.asked = @ \cup {"implies"},
                            !.implies = get_wr_implies_rd(1, 1)]
    /\ UNCHANGED <<lib, mem, cfgs, kind, style, logic_ok, pc, prio_trace, steps, parser>>

GetWrExcludesRd ==
    /\ pc = "call"
    /\ call.fn = "query"
    /\ "excludes" \notin call.asked
    /\ call' = [call EXCEPT !.asked = @ \cup {"excludes"},
                            !.excludes = get_wr_excludes_rd(1, 1)]
    /\ UNCHANGED <<lib, mem, cfgs, kind, style, logic_ok, pc, prio_trace, steps, parser>>

QueryNext == GetWrImpliesRd \/ GetWrExcludesRd

QuerySpec == QueryInit /\ [][QueryNext]_vars

\* The assignments under which some bit of the write enable is true.
WrEnabled ==
    {asg \in SUBSET SatVars : \E b \in 1..Len(mem.wr_ports[1].en) :
        SigVal(mem.wr_ports[1].en[b], asg)}

\* C16: get_wr_implies_rd(w, r) is true iff no assignment makes some bit of
\* w's enable true and r's enable false, get_wr_excludes_rd(w, r) iff none
\* makes some bit of w's enable true and r's enable true; so when w's enable
\* is satisfiable and the first is true, the second is false.
C16_ImpliesAndExcludes ==
    call.fn = "query" =>
        /\ "implies" \in call.asked =>
            (call.implies <=> \A asg \in WrEnabled : SigVal(mem.rd_ports[1].en, asg))
        /\ "excludes" \in call.asked =>
            (call.excludes <=> \A asg \in WrEnabled : ~SigVal(mem.rd_ports[1].en, asg))
        /\ (call.asked = {"implies", "excludes"} /\ call.implies /\ WrEnabled # {}) =>
            ~call.excludes

\* A two-bit write enable whose first bit is constant 0 and that implies
\* the read enable.
C16_Witness ==
    /\ call.fn = "query"
    /\ call.asked = {"implies", "excludes"}
    /\ call.implies
    /\ ~call.excludes
    /\ Len(mem.wr_ports[1].en) = 2
    /\ mem.wr_ports[1].en[1] = "0"
    /\ mem.rd_ports[1].en \notin {"0", "1"}
    /\ WrEnabled # {}

----------------------------------------------------------------------------
(* The parser on files of one RAM definition that differ in what the       *)
(* definition declares: dims, port groups, their clocks and read enables.  *)

\* The number of port groups of a definition.
MaxGroups == 2
Clk(pol, tag, hidden) == [pol |-> pol, tag |-> tag, hidden |-> hidden]
\* The clock capabilities a port group declares.
ClkLists ==
    {<<>>,
     <<Clk("anyedge", "C", FALSE)>>,
     <<Clk("posedge", "C", FALSE)>>,
     <<Clk("negedge", "C", FALSE)>>,
     <<Clk("posedge", "", FALSE)>>,
     <<Clk("anyedge", "C", FALSE), Clk("posedge", "C", FALSE)>>,
     <<Clk("anyedge", "C", FALSE), Clk("posedge", "C", TRUE)>>,
     <<Clk("posedge", "C", FALSE), Clk("negedge", "C", FALSE)>>}
GroupDescs ==
    {[kind |-> "sw", clks |-> c, rden |-> "no"] : c \in ClkLists}
    \cup {[kind |-> "sr", clks |-> <<>>, rden |-> e] : e \in {"no", "any", "hidden"}}
    \cup {[kind |-> "sr", clks |-> <<Clk("negedge", "C", FALSE)>>, rden |-> "any"]}
    \cup {[kind |-> "srsw", clks |-> <<>>, rden |-> "no"],
          [kind |-> "ar", clks |-> <<>>, rden |-> "no"]}
DefInputs ==
    [level : {"def"}, wrap : BOOLEAN, dims : BOOLEAN,
     groups : SeqsUpTo(GroupDescs, MaxGroups), defines : {{}}]

DefInit ==
    /\ \E in \in DefInputs : parser = NewParser(in)
    /\ lib = <<>>
    /\ mem = <<>>
    /\ cfgs = <<>>
    /\ kind = "Auto"
    /\ style = ""
    /\ logic_ok = FALSE
    /\ pc = "parse"
    /\ prio_trace = {}
    /\ steps = {}
    /\ call = NoCall

DefSpec == DefInit /\ [][ParseNext]_vars

\* The parser is past the definition of its input.
DefParsed == parser.input.level = "def" /\ parser.state # "parsing"
\* The RAM definitions the library holds.
StoredRams ==
    IF parser.state \in {"parsing", "parsed", "prepared"}
    THEN Range(parser.ram_defs) ELSE {}
\* The tags of the clock capabilities of a stored definition, anyedge or not.
StoredTags(ram, any) ==
    {c.val.name : c \in {x \in UNION {Range(g.val.clock) : g \in Range(ram.ports)} :
                            x.val.name # "" /\ (x.val.kind = "Anyedge") = any}}
\* The tags of the clock capabilities an input declares outside an ifdef.
DeclaredTags(in, any) ==
    {c.tag : c \in {x \in UNION {Range(g.clks) : g \in Range(in.groups)} :
                       ~x.hidden /\ x.tag # "" /\ (x.pol = "anyedge") = any}}

\* C19: a RAM definition that is not inside an unselected ifdef and declares
\* the same clock tag on an anyedge and on a posedge or negedge clock
\* capability, of one port group or of two, ends the parse in a fatal error;
\* and in every RAM definition the library holds no tag is used both with
\* anyedge and with posedge/negedge.
C19_ClockTagOneClass ==
    /\ \A ram \in StoredRams : StoredTags(ram, TRUE) \cap StoredTags(ram, FALSE) = {}
    /\ (/\ DefParsed
        /\ ~parser.input.wrap
        /\ DeclaredTags(parser.input, TRUE) \cap DeclaredTags(parser.input, FALSE) # {})
        => parser.state = "fatal"

\* The parse of a definition with dims whose write group has an anyedge
\* clock "C" and whose read group, with rden, a negedge clock "C" ended in
\* the fatal error about the clock.
C19_Witness ==
    /\ DefParsed
    /\ ~parser.input.wrap
    /\ parser.input.dims
    /\ parser.input.groups =
        <<[kind |-> "sw", clks |-> <<Clk("anyedge", "C", FALSE)>>, rden |-> "no"],
          [kind |-> "sr", clks |-> <<Clk("negedge", "C", FALSE)>>, rden |-> "any"]>>
    /\ parser.state = "fatal"
    /\ parser.error = "named clock used with both posedge/negedge and anyedge clocks"


\* The definition of the input is stored in the library.
DefStored ==
    /\ DefParsed
    /\ parser.state \in {"parsed", "prepared"}
    /\ Len(parser.ram_defs) = 1
    /\ Len(parser.ram_defs[1].ports) = Len(parser.input.groups)
\* The values of a sequence of capabilities.
CapVals(caps) == [c \in 1..Len(caps) |-> caps[c].val]
\* The input declares, outside an ifdef, no clock on its group g.
NoClockDeclared(in, g) == \A c \in Range(in.groups[g].clks) : c.hidden

\* C20: every RAM definition the library holds has a dims capability and a
\* port group; each of its groups of kind sr or srsw has an rden capability,
\* each group of a kind other than ar has a clock capability, the one
\* unnamed anyedge clock when the group declared none, and each group has a
\* width capability, the width 1 when none was declared; and a definition,
\* not inside an unselected ifdef, without dims, without port group or with
\* an sr or srsw group without rden ends the parse in a fatal error.
C20_StoredDefinitionsComplete ==
    /\ \A ram \in StoredRams :
        /\ ram.dims # <<>>
        /\ ram.ports # <<>>
        /\ \A g \in Range(ram.ports) :
            /\ g.val.kind \in {"Sr", "Srsw"} => g.val.rden # <<>>
            /\ g.val.kind # "Ar" => g.val.clock # <<>>
            /\ g.val.width # <<>>
    /\ (DefParsed /\ ~parser.input.wrap /\ parser.state # "fatal") =>
        /\ DefStored
        /\ \A g \in 1..Len(parser.input.groups) :
            /\ (parser.input.groups[g].kind # "ar" /\ NoClockDeclared(parser.input, g))
                => CapVals(parser.ram_defs[1].ports[g].val.clock) = <<ClockDef("Anyedge", "")>>
            /\ CapVals(parser.ram_defs[1].ports[g].val.width) = <<1>>
    /\ (/\ DefParsed
        /\ ~parser.input.wrap
        /\ \/ ~parser.input.dims
           \/ parser.input.groups = <<>>
           \/ \E g \in Range(parser.input.groups) :
                g.kind \in {"sr", "srsw"} /\ g.rden # "any")
        => parser.state = "fatal"

\* The definition with dims, a write group and a read group with rden, none
\* of them declaring a clock or a width, is stored with the default clock
\* and the default width on both groups.
C20_Witness ==
    /\ DefStored
    /\ parser.input.groups =
        <<[kind |-> "sw", clks |-> <<>>, rden |-> "no"],
          [kind |-> "sr", clks |-> <<>>, rden |-> "any"]>>
    /\ \A g \in 1..2 :
        /\ CapVals(parser.ram_defs[1].ports[g].val.clock) = <<ClockDef("Anyedge", "")>>
        /\ CapVals(parser.ram_defs[1].ports[g].val.width) = <<1>>
    /\ parser.ram_defs[1].ports[2].val.rden # <<>>

----------------------------------------------------------------------------
(* The caches of get_wr_en, get_wr_implies_rd and get_wr_excludes_rd over  *)
(* the queries of one MemMapping.  c holds the three caches, the number of *)
(* OR expressions built per write port (builds), the number of solver runs *)
(* per query (solves), the expression get_wr_en returned (en) and the      *)
(* result of the last query (res).                                         *)

\* The number of queries made on one MemMapping.
MaxQueries == 3

\* int get_wr_en(int wpidx), with wr_en_cache.
get_wr_en_cached(c, wpidx) ==
    With(Find(c.wr_en_cache, wpidx), LAMBDA it :
        IF it # 0 THEN [c EXCEPT !.en = c.wr_en_cache[it].val]
        ELSE With(get_wr_en(wpidx), LAMBDA res :
                [c EXCEPT !.wr_en_cache = Append(@, [key |-> wpidx, val |-> res]),
                          !.builds[wpidx] = @ + 1,
                          !.en = res]))

\* get_wr_implies_rd_cached that does not store what it solved.
get_wr_implies_rd_cached_no_insert(c, wpidx, rpidx) ==
    With(get_wr_en_cached(c, wpidx), LAMBDA c1 :
    With(~ \E asg \in c1.en : ~SigVal(mem.rd_ports[rpidx].en, asg), LAMBDA res :
        [c1 EXCEPT !.solves[<<"implies", wpidx, rpidx>>] = @ + 1,
                   !.res = res]))

\* bool get_wr_implies_rd(int wpidx, int rpidx), with wr_implies_rd_cache.
get_wr_implies_rd_cached(c, wpidx, rpidx) ==
    With(Find(c.wr_implies_rd_cache, <<wpidx, rpidx>>), LAMBDA it :
        IF it # 0 THEN [c EXCEPT !.res = c.wr_implies_rd_cache[it].val]
        ELSE With(get_wr_en_cached(c, wpidx), LAMBDA c1 :
             With(~ \E asg \in c1.en : ~SigVal(mem.rd_ports[rpidx].en, asg), LAMBDA res :
                [c1 EXCEPT !.wr_implies_rd_cache =
                                Append(@, [key |-> <<wpidx, rpidx>>, val |-> res]),
                           !.solves[<<"implies", wpidx, rpidx>>] = @ + 1,
                           !.res = res])))

\* bool get_wr_excludes_rd(int wpidx, int rpidx), with wr_excludes_rd_cache.
get_wr_excludes_rd_cached(c, wpidx, rpidx) ==
    With(Find(c.wr_excludes_rd_cache, <<wpidx, rpidx>>), LAMBDA it :
        IF it # 0 THEN [c EXCEPT !.res = c.wr_excludes_rd_cache[it].val]
        ELSE With(get_wr_en_cached(c, wpidx), LAMBDA c1 :
             With(~ \E asg \in c1.en : SigVal(mem.rd_ports[rpidx].en, asg), LAMBDA res :
                [c1 EXCEPT !.wr_excludes_rd_cache =
                                Append(@, [key |-> <<wpidx, rpidx>>, val |-> res]),
                           !.solves[<<"excludes", wpidx, rpidx>>] = @ + 1,
                           !.res = res])))

\* Memories with two write and two read ports that differ in the enables.
MemsCached ==
    {MkMem(<<>>, FALSE, <<>>,
           <<[WrPort EXCEPT !.en = wen[1]], [WrPort EXCEPT !.en = wen[2]]>>,
           <<[RdPort EXCEPT !.en = ren[1]], [RdPort EXCEPT !.en = ren[2]]>>,
           FALSE, <<"x", "x">>) :
        wen \in {<<"p">>, <<"p&q", "0">>} \X {<<"p">>, <<"p", "q">>},
        ren \in {<<"1", "p">>, <<"p|q", "q">>, <<"!p", "p">>}}

\* The queries: their kind, write port and read port.
QueryKeys == {"implies", "excludes"} \X {1, 2} \X {1, 2}

\* A MemMapping with empty caches; the queries made are kept with their
\* results in call.answers.
CacheInit ==
    /\ mem \in MemsCached
    /\ call = [fn |-> "cache", n |-> 0, answers |-> {},
               c |-> [wr_en_cache |-> <<>>, wr_implies_rd_cache |-> <<>>,
                      wr_excludes_rd_cache |-> <<>>,
                      builds |-> [w \in {1, 2} |-> 0],
                      solves |-> [k \in QueryKeys |-> 0],
                      en |-> {}, res |-> FALSE]]
    /\ lib = <<>>
    /\ cfgs = <<>>
    /\ kind = "Auto"
    /\ style = ""
    /\ logic_ok = FALSE
    /\ pc = "call"
    /\ prio_trace = {}
    /\ steps = {}
    /\ parser = ParserIdle

Answered(k, c) ==
    [fn |-> "cache", n |-> call.n + 1, c |-> c,
     answers |-> call.answers \cup {[kind |-> k[1], w |-> k[2], r |-> k[3], res |-> c.res]}]

QueryWrImpliesRd ==
    /\ call.fn = "cache"
    /\ call.n < MaxQueries
    /\ \E w \in 1..Len(mem.wr_ports), r \in 1..Len(mem.rd_ports) :
        call' = Answered(<<"implies", w, r>>, get_wr_implies_rd_cached(call.c, w, r))
    /\ UNCHANGED <<lib, mem, cfgs, kind, style, logic_ok, pc, prio_trace, steps, parser>>

QueryWrExcludesRd ==
    /\ call.fn = "cache"
    /\ call.n < MaxQueries
    /\ \E w \in 1..Len(mem.wr_ports), r \in 1..Len(mem.rd_ports) :
        call' = Answered(<<"excludes", w, r>>, get_wr_excludes_rd_cached(call.c, w, r))
    /\ UNCHANGED <<lib, mem, cfgs, kind, style, logic_ok, pc, prio_trace, steps, parser>>

CacheNext == QueryWrImpliesRd \/ QueryWrExcludesRd

CacheSpec == CacheInit /\ [][CacheNext]_vars

\* C25: over the queries made on one MemMapping the solver has run at most
\* once for each (kind of query, write port, read port), the OR of a write
\* port's enable bits has been built at most once for each write port, and
\* all the answers to one query are the same.
C25_QueriesCached ==
    call.fn = "cache" =>
        /\ \A k \in QueryKeys : call.c.solves[k] <= 1
        /\ \A w \in 1..Len(mem.wr_ports) : call.c.builds[w] <= 1
        /\ \A a, b \in call.answers :
            (a.kind = b.kind /\ a.w = b.w /\ a.r = b.r) => a.res = b.res

\* After three queries on one write port, one of which repeats another:
\* one solver run for each of the two queries, with different answers, and
\* one OR expression.
C25_Witness ==
    /\ call.fn = "cache"
    /\ call.n = 3
    /\ Cardinality(call.answers) = 2
    /\ \E w \in {1, 2} :
        /\ \A a \in call.answers : a.w = w
        /\ call.c.builds[w] = 1
    /\ \A a \in call.answers : call.c.solves[<<a.kind, a.w, a.r>>] = 1
    /\ \E a, b \in call.answers : a.res # b.res

----------------------------------------------------------------------------
(* The parser on files whose statements end in a ";" attached to their     *)
(* last word or written as a word of its own.                              *)

SemiStatements == {"dims", "init", "style", "clock"}
SemiInputs ==
    [level : {"semi"}, detached : SUBSET SemiStatements, stray : BOOLEAN,
     second : BOOLEAN, defines : {{}}]

SemiInit ==
    /\ \E in \in SemiInputs : parser = NewParser(in)
    /\ lib = <<>>
    /\ mem = <<>>
    /\ cfgs = <<>>
    /\ kind = "Auto"
    /\ style = ""
    /\ logic_ok = FALSE
    /\ pc = "parse"
    /\ prio_trace = {}
    /\ steps = {}
    /\ call = NoCall

SemiSpec == SemiInit /\ [][ParseNext]_vars

\* The tokens of all the lines of the file of an input.
FileTokens(in) ==
    Flatten([l \in 1..Len(FileLines(in)) |-> lex_line(FileLines(in)[l])])
\* The input with every ";" attached.
Attached(in) == [in EXCEPT !.detached = {}]
\* The number of RAM definitions in the file of a terminator input.
SemiRams(in) == IF in.second THEN {1, 2} ELSE {1}

\* C26: the lexer gives the parser the empty token only at the end of the
\* file, so that the loop of parse() ends there; a file whose statements
\* have their ";" as a word of its own has the tokens of the file with every
\* ";" attached, and its parse ends the same way: without error, the
\* library holding the definitions of the file.
C26_TerminatorsUniform ==
    (parser.state # "idle" /\ parser.input.level = "semi") =>
        /\ parser.state \in {"parsed", "prepared"} => parser.eof
        /\ ~parser.input.stray =>
            /\ "" \notin Range(FileTokens(parser.input))
            /\ FileTokens(parser.input) = FileTokens(Attached(parser.input))
            /\ parser.state # "fatal"
            /\ parser.state \in {"parsed", "prepared"} =>
                {i \in 1..Len(parser.ram_defs) : TRUE} = SemiRams(parser.input)

====
